---- MODULE Spec2Model ----
(***************************************************************************)
(* Stratosphere runtime asset layer: the cooked .smodel container reader   *)
(* (LoadSModelFile) and the AssetManager's four handle registries with     *)
(* reference counts, dependency lists and garbage collection.              *)
(*                                                                         *)
(* Integer widths are scaled: a uint32_t is U32Bits bits wide and a        *)
(* uint64_t twice that, so that wrapping sums are values TLC can hold.     *)
(* Pointers into the file buffer are byte offsets; NullPtr is nullptr.     *)
(***************************************************************************)
EXTENDS Integers, Sequences, FiniteSets, TLC

VARIABLES
    \* ---- AssetManager state
    m_meshes, m_textures, m_materials, m_models,
    m_nextMeshID, m_nextTextureID, m_nextMaterialID, m_nextModelID,
    m_meshPathCache, m_modelPathCache,
    last, calls, createdBy,
    \* ---- the container reader under test
    file, edits, parse,
    \* ---- a view with a string table, and the latest string lookup in it
    strView, strRead,
    \* ---- an upload transaction, the texture uploaded in it, the device's staging
    \* ---- buffers, the decoded image at hand and the latest upload call
    ctx, tex, dev, img, upl,
    \* ---- the references a caller holds: per kind and identifier, the acquisitions
    \* ---- through loadMesh, loadModel and addRef minus the releases
    held

mgrVars == <<m_meshes, m_textures, m_materials, m_models,
             m_nextMeshID, m_nextTextureID, m_nextMaterialID, m_nextModelID,
             m_meshPathCache, m_modelPathCache, last, calls, createdBy>>
parseVars == <<file, edits, parse>>
strVars == <<strView, strRead>>
upVars == <<ctx, tex, dev, img, upl>>
heldVars == <<held>>
vars == <<mgrVars, parseVars, strVars, upVars, heldVars>>

----------------------------------------------------------------------------
\* Bounds of the model

U32Bits == 12
MaxEdits == 2
MaxID == 2
MaxRef == 2
MaxCalls == 3
MaxTable == 4
MaxDim == 4
MaxUploads == 2

----------------------------------------------------------------------------
\* Fixed-width arithmetic

U64Bits == 2 * U32Bits
U32Mod == 2 ^ U32Bits
U64Mod == 2 ^ U64Bits
U32Max == U32Mod - 1
U64Max == U64Mod - 1
Add32(a, b) == (a + b) % U32Mod
Add64(a, b) == (a + b) % U64Mod
Mul64(a, b) == (a * b) % U64Mod

NullPtr == 0 - 1

Min(S) == CHOOSE x \in S : \A y \in S : x <= y

----------------------------------------------------------------------------
\* Record sizes of the cooked format

SizeofHeader == 108
SizeofMeshRecord == 80
SizeofMaterialRecord == 104
SizeofTextureRecord == 64
SizeofAnimationClipRecord == 16
SizeofAnimationChannelRecord == 8
SizeofAnimationSamplerRecord == 20
SizeofPrimitiveRecord == 20
SizeofNodeRecord == 84
SizeofU32 == 4
SizeofFloat == 4

MagicSMOD == "SMOD"
CurrentMajor == 3

----------------------------------------------------------------------------
\* Local helpers of the loader

\* a range check made of the wrapping sum alone
isRangeInsideFile_sumOnly(begin, size, fileSize) ==
    ~(Add64(begin, size) > fileSize)

isRangeInsideFile(begin, size, fileSize) ==
    IF begin > fileSize THEN FALSE
    ELSE IF size > fileSize THEN FALSE
    ELSE IF Add64(begin, size) > fileSize THEN FALSE
    ELSE TRUE

\* tableRangeValid<T>: the error it leaves in outError, "" when the range is valid
tableRangeValid(sizeofT, tableOffset, count, fileSize) ==
    LET bytes == Mul64(count, sizeofT)
    IN  IF ~isRangeInsideFile(tableOffset, bytes, fileSize)
        THEN "Table out of file bounds."
        ELSE ""

\* ptrAt<T>: the pointer returned and the error left in outError
ptrAt(sizeofT, fileSize, offset, count) ==
    IF count = 0 THEN [ptr |-> NullPtr, err |-> ""]
    ELSE LET e == tableRangeValid(sizeofT, offset, count, fileSize)
         IN  IF e # "" THEN [ptr |-> NullPtr, err |-> e]
             ELSE [ptr |-> offset, err |-> ""]

isHeaderCompatible(h) ==
    /\ h.magic = MagicSMOD
    /\ h.versionMajor >= 1
    /\ h.versionMajor <= CurrentMajor

----------------------------------------------------------------------------
\* SModelFileView

ViewPointers == {"header", "meshes", "primitives", "materials", "textures",
                 "nodes", "nodePrimitiveIndices", "nodeChildIndices",
                 "stringTable", "blob",
                 "animClips", "animChannels", "animSamplers", "animTimes", "animValues"}

SModelFileView == [p \in ViewPointers |-> NullPtr]

\* Lines 126: the header pointer is the start of the buffer
ViewWithHeader == [SModelFileView EXCEPT !["header"] = 0]

\* Lines 234-256: table, string table and blob pointers
ViewWithTables(h) ==
    [ViewWithHeader EXCEPT
        !["meshes"] = h.meshesOffset,
        !["primitives"] = h.primitivesOffset,
        !["materials"] = h.materialsOffset,
        !["textures"] = h.texturesOffset,
        !["nodes"] = IF h.nodeCount > 0 THEN h.nodesOffset ELSE NullPtr,
        !["nodePrimitiveIndices"] =
            IF h.nodePrimitiveIndexCount > 0 THEN h.nodePrimitiveIndicesOffset ELSE NullPtr,
        !["nodeChildIndices"] =
            IF h.nodeChildIndicesCount > 0 THEN h.nodeChildIndicesOffset ELSE NullPtr,
        !["stringTable"] = h.stringTableOffset,
        !["blob"] = h.blobOffset]

----------------------------------------------------------------------------
\* The first non-empty error of a list of checks made in order
FirstError(errs) ==
    LET bad == {i \in 1..Len(errs) : errs[i] # ""}
    IN  IF bad = {} THEN "" ELSE errs[Min(bad)]

\* A validation loop over records 0..n-1 that returns at the first record in error
LoopError(n, E(_)) ==
    LET bad == {i \in 0..(n - 1) : E(i) # ""}
    IN  IF bad = {} THEN "" ELSE E(Min(bad))

\* table[i] of a table whose range was validated against the file
At(table, i) == table[i + 1]

\* Lines 148-229: section and table bounds
SectionBoundsErrors(h, uFileSize) ==
    << IF ~isRangeInsideFile(h.stringTableOffset, h.stringTableSize, uFileSize)
         THEN "String table out of bounds." ELSE "",
       IF ~isRangeInsideFile(h.blobOffset, h.blobSize, uFileSize)
         THEN "Blob section out of bounds." ELSE "",
       tableRangeValid(SizeofMeshRecord, h.meshesOffset, h.meshCount, uFileSize),
       tableRangeValid(SizeofPrimitiveRecord, h.primitivesOffset, h.primitiveCount, uFileSize),
       tableRangeValid(SizeofMaterialRecord, h.materialsOffset, h.materialCount, uFileSize),
       tableRangeValid(SizeofTextureRecord, h.texturesOffset, h.textureCount, uFileSize),
       IF h.nodeCount > 0
         THEN tableRangeValid(SizeofNodeRecord, h.nodesOffset, h.nodeCount, uFileSize)
         ELSE "",
       IF h.nodePrimitiveIndexCount > 0
            /\ ~isRangeInsideFile(h.nodePrimitiveIndicesOffset,
                                  Mul64(h.nodePrimitiveIndexCount, SizeofU32), uFileSize)
         THEN "NodePrimitiveIndices table out of file bounds." ELSE "",
       IF h.nodeChildIndicesCount > 0
            /\ ~isRangeInsideFile(h.nodeChildIndicesOffset,
                                  Mul64(h.nodeChildIndicesCount, SizeofU32), uFileSize)
         THEN "NodeChildIndices table out of file bounds." ELSE "",
       IF h.animClipsCount > 0
         THEN tableRangeValid(SizeofAnimationClipRecord, h.animClipsOffset, h.animClipsCount, uFileSize)
         ELSE "",
       IF h.animChannelsCount > 0
         THEN tableRangeValid(SizeofAnimationChannelRecord, h.animChannelsOffset, h.animChannelsCount, uFileSize)
         ELSE "",
       IF h.animSamplersCount > 0
         THEN tableRangeValid(SizeofAnimationSamplerRecord, h.animSamplersOffset, h.animSamplersCount, uFileSize)
         ELSE "",
       IF h.animTimesCount > 0
         THEN tableRangeValid(SizeofFloat, h.animTimesOffset, h.animTimesCount, uFileSize)
         ELSE "",
       IF h.animValuesCount > 0
         THEN tableRangeValid(SizeofFloat, h.animValuesOffset, h.animValuesCount, uFileSize)
         ELSE "" >>

\* Lines 258-273: the animation pointers, each followed by a test of outError
AnimPtrs(h, uFileSize) ==
    << ptrAt(SizeofAnimationClipRecord, uFileSize, h.animClipsOffset, h.animClipsCount),
       ptrAt(SizeofAnimationChannelRecord, uFileSize, h.animChannelsOffset, h.animChannelsCount),
       ptrAt(SizeofAnimationSamplerRecord, uFileSize, h.animSamplersOffset, h.animSamplersCount),
       ptrAt(SizeofFloat, uFileSize, h.animTimesOffset, h.animTimesCount),
       ptrAt(SizeofFloat, uFileSize, h.animValuesOffset, h.animValuesCount) >>

AnimPtrNames == <<"animClips", "animChannels", "animSamplers", "animTimes", "animValues">>

AnimPtrError(h, uFileSize) ==
    FirstError([i \in 1..5 |-> AnimPtrs(h, uFileSize)[i].err])

\* the view when the pointer stage ends: pointers are assigned up to the first error
ViewWithAnim(h, uFileSize) ==
    LET ps == AnimPtrs(h, uFileSize)
        bad == {i \in 1..5 : ps[i].err # ""}
        stop == IF bad = {} THEN 5 ELSE Min(bad)
        base == ViewWithTables(h)
    IN  [p \in ViewPointers |->
            IF \E i \in 1..stop : AnimPtrNames[i] = p
            THEN ps[CHOOSE i \in 1..stop : AnimPtrNames[i] = p].ptr
            ELSE base[p]]

\* a mesh check that never compares vertexDataSize with vertexCount * vertexStride
MeshRecordError_sizeUnchecked(m, blobSize) ==
    IF Add64(m.vertexDataOffset, m.vertexDataSize) > blobSize
    THEN "Mesh vertex data slice out of blob bounds"
    ELSE IF Add64(m.indexDataOffset, m.indexDataSize) > blobSize
    THEN "Mesh index data slice out of blob bounds"
    ELSE IF m.vertexCount = 0 \/ m.vertexStride = 0
    THEN "Mesh has invalid vertexCount/vertexStride"
    ELSE ""

\* Lines 283-314: one mesh record
MeshRecordError(m, blobSize) ==
    IF Add64(m.vertexDataOffset, m.vertexDataSize) > blobSize
    THEN "Mesh vertex data slice out of blob bounds"
    ELSE IF Add64(m.indexDataOffset, m.indexDataSize) > blobSize
    THEN "Mesh index data slice out of blob bounds"
    ELSE IF m.vertexCount = 0 \/ m.vertexStride = 0
    THEN "Mesh has invalid vertexCount/vertexStride"
    ELSE IF m.vertexDataSize # Mul64(m.vertexCount, m.vertexStride)
    THEN "Mesh vertexDataSize mismatch"
    ELSE ""

\* Lines 317-326: one texture record
TextureRecordError(t, blobSize) ==
    IF Add64(t.imageDataOffset, t.imageDataSize) > blobSize
    THEN "Texture image data slice out of blob bounds"
    ELSE ""

\* a primitive check that looks at the mesh index only
PrimitiveRecordError_meshOnly(p, h) ==
    IF p.meshIndex >= h.meshCount
    THEN "Primitive references invalid meshIndex"
    ELSE ""

\* Lines 329-347: one primitive record
PrimitiveRecordError(p, h) ==
    IF p.meshIndex >= h.meshCount
    THEN "Primitive references invalid meshIndex"
    ELSE IF p.materialIndex >= h.materialCount
    THEN "Primitive references invalid materialIndex"
    ELSE ""

\* Lines 354-364: checkTex, TRUE when the index is absent or in range
checkTex(texIndex, textureCount) ==
    IF texIndex < 0 THEN TRUE
    ELSE IF texIndex >= textureCount THEN FALSE
    ELSE TRUE

MaterialSlots == <<"baseColorTexture", "normalTexture", "metallicRoughnessTexture",
                   "occlusionTexture", "emissiveTexture">>

\* a material check that looks at the base color index only
MaterialRecordError_baseColorOnly(mat, h) ==
    IF ~checkTex(mat.baseColorTexture, h.textureCount)
    THEN "Material references invalid texture index"
    ELSE ""

\* Lines 350-376: one material record
MaterialRecordError(mat, h) ==
    IF \E s \in 1..5 : ~checkTex(mat[MaterialSlots[s]], h.textureCount)
    THEN "Material references invalid texture index"
    ELSE ""

----------------------------------------------------------------------------
\* table[idx] through a table pointer: the record when idx is inside the table,
\* and whatever lies at that address (f.oob) when the read is out of bounds
TableRead(table, count, idx, oob) ==
    IF idx < count /\ idx < Len(table) THEN table[idx + 1] ELSE oob

\* Lines 396-432: the children of node ni
NodeChildrenError(f, ni) ==
    LET h == f.header
        nr == At(f.nodes, ni)
    IN  IF nr.childCount = 0 THEN ""
        ELSE IF h.nodeChildIndicesCount = 0
        THEN "Node has children but nodeChildIndices table is missing"
        ELSE IF nr.firstChildIndex = U32Max
        THEN "Node has children but firstChildIndex == UINT32_MAX"
        ELSE IF Add32(nr.firstChildIndex, nr.childCount) > h.nodeChildIndicesCount
        THEN "Node child index range out of bounds"
        ELSE LET ChildError(k) ==
                    LET c == TableRead(f.nodeChildIndices, h.nodeChildIndicesCount,
                                       Add32(nr.firstChildIndex, k), f.oob)
                    IN  IF c >= h.nodeCount
                        THEN "Node references invalid child node index"
                        ELSE IF At(f.nodes, c).parentIndex # ni
                        THEN "Node child parentIndex mismatch"
                        ELSE ""
             IN  LoopError(nr.childCount, ChildError)

\* Lines 434-450: the primitives of node ni
NodePrimitivesError(f, ni) ==
    LET h == f.header
        nr == At(f.nodes, ni)
    IN  IF nr.primitiveCount = 0 THEN ""
        ELSE IF Add32(nr.firstPrimitiveIndex, nr.primitiveCount) > h.nodePrimitiveIndexCount
        THEN "Node primitive index range out of bounds"
        ELSE LET PrimError(k) ==
                    LET pidx == TableRead(f.nodePrimitiveIndices, h.nodePrimitiveIndexCount,
                                          Add32(nr.firstPrimitiveIndex, k), f.oob)
                    IN  IF pidx >= h.primitiveCount
                        THEN "Node references invalid primitive index"
                        ELSE ""
             IN  LoopError(nr.primitiveCount, PrimError)

\* Lines 386-451: one node record
NodeRecordError(f, ni) ==
    LET nr == At(f.nodes, ni)
    IN  FirstError(<<
            IF nr.parentIndex # U32Max /\ nr.parentIndex >= f.header.nodeCount
              THEN "Node parentIndex out of bounds" ELSE "",
            NodeChildrenError(f, ni),
            NodePrimitivesError(f, ni) >>)

\* Lines 379-452
NodeGraphError(f) ==
    IF f.header.nodeCount > 0
    THEN LET E(ni) == NodeRecordError(f, ni) IN LoopError(f.header.nodeCount, E)
    ELSE ""

\* a path validator that accepts every value
isValidPath_any(path) == TRUE

\* Lines 487-498
isValidPath(path) == path \in {0, 1, 2}
isValidInterpolation(interp) == interp \in {0, 1, 2}
isValidValueType(vt) == vt \in {0, 1}
ValueTypeVec3 == 0

\* Lines 461-485: a count without its pointer
AnimNullPointerError(h, view) ==
    FirstError(<<
        IF h.animClipsCount > 0 /\ view["animClips"] = NullPtr
          THEN "animClipsCount > 0 but animClips pointer is null" ELSE "",
        IF h.animChannelsCount > 0 /\ view["animChannels"] = NullPtr
          THEN "animChannelsCount > 0 but animChannels pointer is null" ELSE "",
        IF h.animSamplersCount > 0 /\ view["animSamplers"] = NullPtr
          THEN "animSamplersCount > 0 but animSamplers pointer is null" ELSE "",
        IF h.animTimesCount > 0 /\ view["animTimes"] = NullPtr
          THEN "animTimesCount > 0 but animTimes pointer is null" ELSE "",
        IF h.animValuesCount > 0 /\ view["animValues"] = NullPtr
          THEN "animValuesCount > 0 but animValues pointer is null" ELSE "" >>)

\* Lines 501-516: one clip record
ClipRecordError(clip, h) ==
    IF clip.durationSec < 0
    THEN "Animation clip durationSec < 0"
    ELSE IF Add32(clip.firstChannel, clip.channelCount) > h.animChannelsCount
    THEN "Animation clip channel range out of bounds"
    ELSE ""

\* Lines 519-540: one channel record
ChannelRecordError(chan, h) ==
    IF chan.targetNode >= h.nodeCount
    THEN "Animation channel targetNode out of bounds"
    ELSE IF chan.samplerIndex >= h.animSamplersCount
    THEN "Animation channel samplerIndex out of bounds"
    ELSE IF ~isValidPath(chan.path)
    THEN "Animation channel path is invalid"
    ELSE ""

\* a sampler check that never looks at the times
SamplerTimesError_unchecked(f, s) == ""

\* Lines 587-596: times[ti] < times[ti - 1] for some ti, read through animTimes + firstTime
SamplerTimesError(f, s) ==
    LET T(i) == TableRead(f.animTimes, f.header.animTimesCount, s.firstTime + i, f.oob)
        E(j) == IF T(j + 1) < T(j)
                THEN "Animation sampler times are not non-decreasing" ELSE ""
    IN  LoopError(s.timeCount - 1, E)

\* Lines 543-597: one sampler record
SamplerRecordError(f, s) ==
    LET h == f.header
        expected == IF s.valueType = ValueTypeVec3
                    THEN Mul64(s.timeCount, 3) ELSE Mul64(s.timeCount, 4)
    IN  IF s.timeCount < 1
        THEN "Animation sampler timeCount < 1"
        ELSE IF Add32(s.firstTime, s.timeCount) > h.animTimesCount
        THEN "Animation sampler time range out of bounds"
        ELSE IF Add32(s.firstValue, s.valueCount) > h.animValuesCount
        THEN "Animation sampler value range out of bounds"
        ELSE IF ~isValidInterpolation(s.interpolation)
        THEN "Animation sampler interpolation is invalid"
        ELSE IF ~isValidValueType(s.valueType)
        THEN "Animation sampler valueType is invalid"
        ELSE IF s.valueCount # expected
        THEN "Animation sampler valueCount does not match timeCount * valueWidth"
        ELSE SamplerTimesError(f, s)

----------------------------------------------------------------------------
\* Lines 283-597: record validation, in code order
RecordErrors(f, view) ==
    LET h == f.header
        MeshE(i) == MeshRecordError(At(f.meshes, i), h.blobSize)
        TexE(i) == TextureRecordError(At(f.textures, i), h.blobSize)
        PrimE(i) == PrimitiveRecordError(At(f.primitives, i), h)
        MatE(i) == MaterialRecordError(At(f.materials, i), h)
        ClipE(i) == ClipRecordError(At(f.animClips, i), h)
        ChanE(i) == ChannelRecordError(At(f.animChannels, i), h)
        SampE(i) == SamplerRecordError(f, At(f.animSamplers, i))
    IN  << LoopError(h.meshCount, MeshE),
           LoopError(h.textureCount, TexE),
           LoopError(h.primitiveCount, PrimE),
           LoopError(h.materialCount, MatE),
           NodeGraphError(f),
           AnimNullPointerError(h, view),
           LoopError(h.animClipsCount, ClipE),
           LoopError(h.animChannelsCount, ChanE),
           LoopError(h.animSamplersCount, SampE) >>

\* a reader that never compares the declared size
fileSizeMismatch_never(h, uFileSize) == FALSE

\* Line 136: a declared size of 0 is not compared
fileSizeMismatch(h, uFileSize) ==
    h.fileSizeBytes # 0 /\ h.fileSizeBytes # uFileSize

\* a reader whose failures leave outError as LoadSModelFile cleared it on entry
LoadResult_errorLeftEmpty(ok, err, stage, view, f) ==
    [ok |-> ok, err |-> "", stage |-> stage, view |-> view, header |-> f.header,
     uFileSize |-> f.size]

LoadResult(ok, err, stage, view, f) ==
    [ok |-> ok, err |-> err, stage |-> stage, view |-> view, header |-> f.header,
     uFileSize |-> f.size]

\* LoadSModelFile(path, outView, outError): the return value, outError and outView
\* for the file f found at path; stage names the part of the function that returned
LoadSModelFile(f) ==
    LET h == f.header IN
    IF ~f.exists
    THEN LoadResult(FALSE, "Failed to open file", "io", SModelFileView, f)
    ELSE IF f.size <= 0
    THEN LoadResult(FALSE, "File is empty", "io", SModelFileView, f)
    ELSE IF ~f.readOk
    THEN LoadResult(FALSE, "Failed to read file bytes", "io", SModelFileView, f)
    ELSE IF f.size < SizeofHeader
    THEN LoadResult(FALSE, "File too small to contain SModelHeader.", "io", SModelFileView, f)
    ELSE IF ~isHeaderCompatible(h)
    THEN LoadResult(FALSE, "SModel header incompatible (bad magic or unsupported version).",
                    "header", ViewWithHeader, f)
    ELSE IF fileSizeMismatch(h, f.size)
    THEN LoadResult(FALSE, "SModel header fileSizeBytes does not match actual file size.",
                    "size", ViewWithHeader, f)
    ELSE IF FirstError(SectionBoundsErrors(h, f.size)) # ""
    THEN LoadResult(FALSE, FirstError(SectionBoundsErrors(h, f.size)),
                    "bounds", ViewWithHeader, f)
    ELSE IF AnimPtrError(h, f.size) # ""
    THEN LoadResult(FALSE, AnimPtrError(h, f.size), "pointers", ViewWithAnim(h, f.size), f)
    ELSE LET view == ViewWithAnim(h, f.size)
             e == FirstError(RecordErrors(f, view))
         IN  IF e # ""
             THEN LoadResult(FALSE, e, "records", view, f)
             ELSE LoadResult(TRUE, "", "done", view, f)

----------------------------------------------------------------------------
\* Cooked containers: records and a header laid out the way the cooker writes them

SModelMeshRecord(vertexStride, vertexCount, indexCount, indexType, vOff, iOff) ==
    [nameStrOffset |-> 0, vertexStride |-> vertexStride, vertexCount |-> vertexCount,
     indexCount |-> indexCount, indexType |-> indexType,
     vertexDataOffset |-> vOff, vertexDataSize |-> vertexCount * vertexStride,
     indexDataOffset |-> iOff,
     indexDataSize |-> indexCount * (IF indexType = 0 THEN 2 ELSE 4)]

SModelTextureRecord(off, size) ==
    [nameStrOffset |-> 0, imageDataOffset |-> off, imageDataSize |-> size]

SModelMaterialRecord(base, normal, mr, occ, emis) ==
    [nameStrOffset |-> 0, baseColorTexture |-> base, normalTexture |-> normal,
     metallicRoughnessTexture |-> mr, occlusionTexture |-> occ, emissiveTexture |-> emis]

SModelPrimitiveRecord(mesh, mat) == [meshIndex |-> mesh, materialIndex |-> mat]

SModelNodeRecord(parent, firstChild, childCount, firstPrim, primCount) ==
    [parentIndex |-> parent, firstChildIndex |-> firstChild, childCount |-> childCount,
     firstPrimitiveIndex |-> firstPrim, primitiveCount |-> primCount]

SModelAnimationClipRecord(duration, firstChannel, channelCount) ==
    [durationSec |-> duration, firstChannel |-> firstChannel, channelCount |-> channelCount]

SModelAnimationChannelRecord(node, path, sampler) ==
    [targetNode |-> node, path |-> path, samplerIndex |-> sampler]

SModelAnimationSamplerRecord(firstTime, timeCount, firstValue, valueCount, interp, vt) ==
    [firstTime |-> firstTime, timeCount |-> timeCount, firstValue |-> firstValue,
     valueCount |-> valueCount, interpolation |-> interp, valueType |-> vt]

Tables == <<"meshes", "primitives", "materials", "textures", "nodes",
            "nodePrimitiveIndices", "nodeChildIndices",
            "animClips", "animChannels", "animSamplers", "animTimes", "animValues">>

TableRecordSize ==
    <<SizeofMeshRecord, SizeofPrimitiveRecord, SizeofMaterialRecord, SizeofTextureRecord,
      SizeofNodeRecord, SizeofU32, SizeofU32, SizeofAnimationClipRecord,
      SizeofAnimationChannelRecord, SizeofAnimationSamplerRecord, SizeofFloat, SizeofFloat>>

RECURSIVE TableOffset(_, _)
TableOffset(c, k) ==
    IF k = 1 THEN SizeofHeader
    ELSE TableOffset(c, k - 1) + Len(c[Tables[k - 1]]) * TableRecordSize[k - 1]

\* A well-formed file holding the tables of c, a string table and a blob
Cook(c) ==
    LET strOff == TableOffset(c, 13)
        blobOff == strOff + c.stringTableSize
        size == blobOff + c.blobSize
    IN  [exists |-> TRUE, readOk |-> TRUE, size |-> size, oob |-> 0,
         header |->
            [magic |-> MagicSMOD, versionMajor |-> CurrentMajor, versionMinor |-> 0,
             fileSizeBytes |-> size, flags |-> 0,
             meshCount |-> Len(c.meshes), primitiveCount |-> Len(c.primitives),
             materialCount |-> Len(c.materials), textureCount |-> Len(c.textures),
             meshesOffset |-> TableOffset(c, 1), primitivesOffset |-> TableOffset(c, 2),
             materialsOffset |-> TableOffset(c, 3), texturesOffset |-> TableOffset(c, 4),
             stringTableOffset |-> strOff, blobOffset |-> blobOff,
             stringTableSize |-> c.stringTableSize, blobSize |-> c.blobSize,
             nodeCount |-> Len(c.nodes), nodesOffset |-> TableOffset(c, 5),
             nodePrimitiveIndexCount |-> Len(c.nodePrimitiveIndices),
             nodePrimitiveIndicesOffset |-> TableOffset(c, 6),
             nodeChildIndicesCount |-> Len(c.nodeChildIndices),
             nodeChildIndicesOffset |-> TableOffset(c, 7),
             animClipsCount |-> Len(c.animClips), animClipsOffset |-> TableOffset(c, 8),
             animChannelsCount |-> Len(c.animChannels), animChannelsOffset |-> TableOffset(c, 9),
             animSamplersCount |-> Len(c.animSamplers), animSamplersOffset |-> TableOffset(c, 10),
             animTimesCount |-> Len(c.animTimes), animTimesOffset |-> TableOffset(c, 11),
             animValuesCount |-> Len(c.animValues), animValuesOffset |-> TableOffset(c, 12)],
         meshes |-> c.meshes, primitives |-> c.primitives, materials |-> c.materials,
         textures |-> c.textures, nodes |-> c.nodes,
         nodePrimitiveIndices |-> c.nodePrimitiveIndices,
         nodeChildIndices |-> c.nodeChildIndices,
         animClips |-> c.animClips, animChannels |-> c.animChannels,
         animSamplers |-> c.animSamplers, animTimes |-> c.animTimes,
         animValues |-> c.animValues]

NoNodesNoAnim ==
    [nodes |-> <<>>, nodePrimitiveIndices |-> <<>>, nodeChildIndices |-> <<>>,
     animClips |-> <<>>, animChannels |-> <<>>, animSamplers |-> <<>>,
     animTimes |-> <<>>, animValues |-> <<>>]

\* one primitive, one mesh, one material, one texture
OneOfEach ==
    [meshes |-> << SModelMeshRecord(32, 1, 3, 0, 0, 32) >>,
     primitives |-> << SModelPrimitiveRecord(0, 0) >>,
     materials |-> << SModelMaterialRecord(0, 0 - 1, 0 - 1, 0 - 1, 0 - 1) >>,
     textures |-> << SModelTextureRecord(40, 16) >>,
     stringTableSize |-> 8, blobSize |-> 64]

\* a root node with one child, and one clip animating the child
WithNodesAndAnim ==
    [nodes |-> << SModelNodeRecord(U32Max, 0, 1, 0, 0), SModelNodeRecord(0, 0, 0, 0, 1) >>,
     nodePrimitiveIndices |-> << 0 >>, nodeChildIndices |-> << 1 >>,
     animClips |-> << SModelAnimationClipRecord(5, 0, 1) >>,
     animChannels |-> << SModelAnimationChannelRecord(1, 0, 0) >>,
     animSamplers |-> << SModelAnimationSamplerRecord(0, 2, 0, 6, 1, 0) >>,
     animTimes |-> << 0, 5 >>, animValues |-> << 0, 0, 0, 1, 1, 1 >>]

Merge(a, b) == [k \in (DOMAIN a) \cup (DOMAIN b) |-> IF k \in DOMAIN a THEN a[k] ELSE b[k]]

FileV1 == Cook(Merge(OneOfEach, NoNodesNoAnim))
FileV3 == Cook(Merge(OneOfEach, WithNodesAndAnim))

----------------------------------------------------------------------------
\* Malformed containers: a cooked file with up to MaxEdits fields overwritten

CountFields == {"meshCount", "primitiveCount", "materialCount", "textureCount",
                "nodeCount", "nodePrimitiveIndexCount", "nodeChildIndicesCount",
                "animClipsCount", "animChannelsCount", "animSamplersCount",
                "animTimesCount", "animValuesCount"}
OffsetFields == {"meshesOffset", "primitivesOffset", "materialsOffset", "texturesOffset",
                 "nodesOffset", "nodePrimitiveIndicesOffset", "nodeChildIndicesOffset",
                 "animClipsOffset", "animChannelsOffset", "animSamplersOffset",
                 "animTimesOffset", "animValuesOffset", "stringTableOffset", "blobOffset"}
SizeFields == {"stringTableSize", "blobSize"}

HeaderEdits(f) ==
    {<<"magic", "XMOD">>, <<"versionMajor", 0>>, <<"versionMajor", CurrentMajor + 1>>,
     <<"fileSizeBytes", 0>>, <<"fileSizeBytes", f.size + 1>>}
    \cup {<<c, v>> : c \in CountFields, v \in {0, U32Max}}
    \cup {<<o, v>> : o \in OffsetFields, v \in {f.size + 1, U64Max}}
    \cup {<<z, v>> : z \in SizeFields, v \in {0, f.size + 1, U64Max}}

FileEdits(f) ==
    {<<"exists", FALSE>>, <<"readOk", FALSE>>, <<"size", 0>>, <<"size", SizeofHeader - 1>>,
     <<"size", f.size - 1>>, <<"oob", 1>>, <<"oob", U32Max>>}

\* <<table, record (from 1), field, value>>
RecordEdits ==
    {<<"meshes", 1, "vertexDataOffset", U64Mod - 16>>, <<"meshes", 1, "vertexDataOffset", 48>>,
     <<"meshes", 1, "vertexDataSize", 100>>, <<"meshes", 1, "vertexDataSize", U64Max>>,
     <<"meshes", 1, "indexDataOffset", U64Mod - 2>>, <<"meshes", 1, "indexDataOffset", 60>>,
     <<"meshes", 1, "indexDataSize", U64Max>>,
     <<"meshes", 1, "vertexCount", 0>>, <<"meshes", 1, "vertexCount", 4>>,
     <<"meshes", 1, "vertexStride", 0>>,
     <<"meshes", 1, "indexCount", U32Max>>, <<"meshes", 1, "indexType", 1>>,
     <<"textures", 1, "imageDataOffset", U64Mod - 8>>, <<"textures", 1, "imageDataOffset", 60>>,
     <<"textures", 1, "imageDataSize", U64Max>>, <<"textures", 1, "imageDataSize", 32>>,
     <<"primitives", 1, "meshIndex", 1>>, <<"primitives", 1, "meshIndex", U32Max>>,
     <<"primitives", 1, "materialIndex", 1>>,
     <<"materials", 1, "baseColorTexture", 0 - 1>>, <<"materials", 1, "baseColorTexture", 7>>,
     <<"materials", 1, "normalTexture", 0>>, <<"materials", 1, "normalTexture", 1>>,
     <<"materials", 1, "emissiveTexture", 7>>,
     <<"nodes", 2, "parentIndex", U32Max>>, <<"nodes", 2, "parentIndex", 5>>,
     <<"nodes", 1, "childCount", 0>>, <<"nodes", 1, "childCount", 3>>,
     <<"nodes", 1, "firstChildIndex", U32Max>>, <<"nodes", 1, "firstChildIndex", U32Max - 1>>,
     <<"nodes", 2, "firstPrimitiveIndex", U32Max>>, <<"nodes", 2, "primitiveCount", 2>>,
     <<"animClips", 1, "durationSec", 0 - 1>>, <<"animClips", 1, "firstChannel", U32Max>>,
     <<"animClips", 1, "channelCount", 2>>,
     <<"animChannels", 1, "targetNode", 9>>, <<"animChannels", 1, "samplerIndex", 3>>,
     <<"animChannels", 1, "path", 3>>,
     <<"animSamplers", 1, "timeCount", 0>>, <<"animSamplers", 1, "timeCount", 3>>,
     <<"animSamplers", 1, "firstTime", U32Max>>, <<"animSamplers", 1, "firstValue", U32Max - 4>>,
     <<"animSamplers", 1, "valueCount", 8>>, <<"animSamplers", 1, "valueCount", 9>>,
     <<"animSamplers", 1, "interpolation", 3>>,
     <<"animSamplers", 1, "valueType", 1>>, <<"animSamplers", 1, "valueType", 2>>}

\* <<table, entry (from 1), value>> for the tables of plain numbers
NumberEdits ==
    {<<"nodeChildIndices", 1, 0>>, <<"nodeChildIndices", 1, 9>>,
     <<"nodePrimitiveIndices", 1, 5>>,
     <<"animTimes", 1, 7>>, <<"animTimes", 2, 0 - 1>>}

NotParsed == [ok |-> FALSE, err |-> "", stage |-> "none"]

EditFile ==
    /\ parse = NotParsed /\ edits < MaxEdits
    /\ \E e \in FileEdits(file) :
        /\ file[e[1]] # e[2]
        /\ file' = [file EXCEPT ![e[1]] = e[2]]
    /\ edits' = edits + 1
    /\ UNCHANGED <<parse, mgrVars, strVars, upVars, heldVars>>

EditHeader ==
    /\ parse = NotParsed /\ edits < MaxEdits
    /\ \E e \in HeaderEdits(file) :
        /\ file.header[e[1]] # e[2]
        /\ file' = [file EXCEPT !.header[e[1]] = e[2]]
    /\ edits' = edits + 1
    /\ UNCHANGED <<parse, mgrVars, strVars, upVars, heldVars>>

EditRecord ==
    /\ parse = NotParsed /\ edits < MaxEdits
    /\ \E e \in RecordEdits :
        /\ e[2] <= Len(file[e[1]])
        /\ file[e[1]][e[2]][e[3]] # e[4]
        /\ file' = [file EXCEPT ![e[1]][e[2]][e[3]] = e[4]]
    /\ edits' = edits + 1
    /\ UNCHANGED <<parse, mgrVars, strVars, upVars, heldVars>>

EditNumber ==
    /\ parse = NotParsed /\ edits < MaxEdits
    /\ \E e \in NumberEdits :
        /\ e[2] <= Len(file[e[1]])
        /\ file[e[1]][e[2]] # e[3]
        /\ file' = [file EXCEPT ![e[1]][e[2]] = e[3]]
    /\ edits' = edits + 1
    /\ UNCHANGED <<parse, mgrVars, strVars, upVars, heldVars>>

\* a call of LoadSModelFile on the file
Parse ==
    /\ parse = NotParsed
    /\ parse' = LoadSModelFile(file)
    /\ UNCHANGED <<file, edits, mgrVars, strVars, upVars, heldVars>>

----------------------------------------------------------------------------
\* SModelFileView::getStringOrEmpty

\* A view as far as string lookups go: whether header and stringTable are set, and
\* the stringTableSize bytes at stringTable (byte 0 is the terminator). A non-null
\* stringTable was range-checked against the file, so all its bytes exist.
StringView(header, stringTable, bytes) ==
    [header |-> header, stringTable |-> stringTable, bytes |-> bytes]

\* std::memchr(s, 0, n) over the table: the position of the first 0 byte among the
\* n bytes from position s, or NullPtr
memchr(bytes, s, n) ==
    LET hits == {p \in s..(s + n - 1) : bytes[p + 1] = 0}
    IN  IF hits = {} THEN NullPtr ELSE Min(hits)

\* the literal "" that getStringOrEmpty returns; no table byte was read
EmptyString == [str |-> <<>>, read |-> {}]

\* a lookup that returns the pointer whether or not a terminator follows
getStringOrEmpty_unterminated(v, strOffset) ==
    IF ~v.header \/ ~v.stringTable THEN EmptyString
    ELSE IF strOffset = 0 THEN EmptyString
    ELSE IF strOffset >= Len(v.bytes) THEN EmptyString
    ELSE LET nullPos == memchr(v.bytes, strOffset, Len(v.bytes) - strOffset)
             end == IF nullPos = NullPtr THEN Len(v.bytes) ELSE nullPos
         IN  [str |-> SubSeq(v.bytes, strOffset + 1, end), read |-> strOffset..end]

\* Lines 59-79: str is the string the returned pointer names, read the positions of
\* the table bytes that memchr and a reader of the returned string look at
getStringOrEmpty(v, strOffset) ==
    IF ~v.header \/ ~v.stringTable THEN EmptyString
    ELSE IF strOffset = 0 THEN EmptyString
    ELSE IF strOffset >= Len(v.bytes) THEN EmptyString
    ELSE LET maxRemaining == Len(v.bytes) - strOffset
             nullPos == memchr(v.bytes, strOffset, maxRemaining)
         IN  IF nullPos = NullPtr
             THEN [str |-> <<>>, read |-> strOffset..(Len(v.bytes) - 1)]
             ELSE [str |-> SubSeq(v.bytes, strOffset + 1, nullPos),
                   read |-> strOffset..nullPos]

\* string tables of up to MaxTable bytes over the terminator and two characters
RECURSIVE ByteStrings(_)
ByteStrings(n) ==
    IF n = 0 THEN {<<>>}
    ELSE ByteStrings(n - 1) \cup
         {Append(b, c) : b \in {x \in ByteStrings(n - 1) : Len(x) = n - 1}, c \in {0, 1, 2}}

StringViews ==
    {StringView(h, t, b) : h \in BOOLEAN, t \in BOOLEAN, b \in ByteStrings(MaxTable)}

StrOffsets == (0..(MaxTable + 1)) \cup {U32Max}

NotRead == [off |-> NullPtr, str |-> <<>>, read |-> {}]

GetString ==
    /\ \E off \in StrOffsets :
          strRead' = [off |-> off, str |-> getStringOrEmpty(strView, off).str,
                      read |-> getStringOrEmpty(strView, off).read]
    /\ UNCHANGED <<strView, mgrVars, parseVars, upVars, heldVars>>

----------------------------------------------------------------------------
\* TextureAsset uploads inside an upload transaction

\* UploadContext as the uploads see it: begun, whether cmd is a command buffer,
\* the pending staging buffers, and how many commands have been recorded
NewUploadContext == [begun |-> FALSE, cmd |-> FALSE, pendingStaging |-> <<>>, recorded |-> 0]

\* a TextureAsset after construction; image, memory, view and sampler tell whether
\* the handle is set, viewMips and samplerMaxLod what view and sampler were made with
NewTextureAsset ==
    [image |-> FALSE, memory |-> FALSE, view |-> FALSE, sampler |-> FALSE,
     width |-> 0, height |-> 0, mipLevels |-> 1, viewMips |-> 0, samplerMaxLod |-> 0]

\* TextureAsset::destroy
destroy(t) == NewTextureAsset

\* the device: the staging buffers that exist, the next buffer it hands out, and
\* the uploads asked of it so far
NewDevice == [staging |-> {}, nextStaging |-> 1, uploads |-> 0]

RECURSIVE FloorLog2(_)
FloorLog2(n) == IF n <= 1 THEN 0 ELSE 1 + FloorLog2(n \div 2)

\* calcMipLevels(width, height)
calcMipLevels(width, height) ==
    LET maxDim == IF width > height THEN width ELSE height
    IN  IF maxDim = 0 THEN 1 ELSE FloorLog2(maxDim) + 1

\* recorded commands: a layout transition, the copy out of a staging buffer, and the
\* generation of a chain of mip levels
Transition(from, to) == [cmd |-> "transition", from |-> from, to |-> to, arg |-> 0]
CopyBufferToImage(staging) ==
    [cmd |-> "copy", from |-> "staging", to |-> "image", arg |-> staging]
GenerateMipmaps(levels) ==
    [cmd |-> "mipmaps", from |-> "TRANSFER_DST", to |-> "SHADER_READ_ONLY", arg |-> levels]

\* what the device answers to one upload: the first creation that fails, if any,
\* and whether CmdGenerateMipmaps can generate mips for the format
GpuAnswers ==
    [fail : {"none", "staging", "image", "view", "sampler"}, mips : BOOLEAN]

UploadResult(c, t, d, ret, staging, cmds) ==
    [ctx |-> c, tex |-> t, dev |-> d, ret |-> ret, staging |-> staging, cmds |-> cmds]

\* an upload that hands the staging buffer to the transaction once the image exists
uploadRGBA8_Deferred_pushAfterImage(c, t, d, pixels, width, height, gpu) ==
    IF ~c.begun \/ ~c.cmd THEN UploadResult(c, t, d, FALSE, 0, <<>>)
    ELSE IF ~pixels \/ width = 0 \/ height = 0 THEN UploadResult(c, t, d, FALSE, 0, <<>>)
    ELSE
    LET t1 == [(IF t.image THEN destroy(t) ELSE t) EXCEPT
                   !.width = width, !.height = height,
                   !.mipLevels = calcMipLevels(width, height)]
        staging == d.nextStaging
        d1 == [d EXCEPT !.staging = @ \cup {staging}, !.nextStaging = @ + 1]
        c1 == [c EXCEPT !.pendingStaging = Append(@, staging)]
    IN  IF gpu.fail = "staging" THEN UploadResult(c, t1, d, FALSE, 0, <<>>)
        ELSE IF gpu.fail = "image" THEN UploadResult(c, t1, d1, FALSE, staging, <<>>)
        ELSE
        LET t2 == [t1 EXCEPT !.image = TRUE, !.memory = TRUE]
            first == << Transition("UNDEFINED", "TRANSFER_DST"), CopyBufferToImage(staging) >>
            okMips == t2.mipLevels > 1 /\ gpu.mips
            cmds == first \o
                    (IF okMips THEN << GenerateMipmaps(t2.mipLevels) >>
                     ELSE << Transition("TRANSFER_DST", "SHADER_READ_ONLY") >>)
            t3 == IF okMips THEN t2 ELSE [t2 EXCEPT !.mipLevels = 1]
            c2 == [c1 EXCEPT !.recorded = @ + Len(cmds)]
        IN  IF gpu.fail = "view" THEN UploadResult(c2, t3, d1, FALSE, staging, cmds)
            ELSE
            LET t4 == [t3 EXCEPT !.view = TRUE, !.viewMips = t3.mipLevels]
            IN  IF gpu.fail = "sampler" THEN UploadResult(c2, t4, d1, FALSE, staging, cmds)
                ELSE UploadResult(c2,
                                  [t4 EXCEPT !.sampler = TRUE,
                                             !.samplerMaxLod = IF t4.mipLevels > 0
                                                               THEN t4.mipLevels - 1 ELSE 0],
                                  d1, TRUE, staging, cmds)

\* an upload whose fallback keeps the mip count of the full chain
uploadRGBA8_Deferred_keepsMipCount(c, t, d, pixels, width, height, gpu) ==
    IF ~c.begun \/ ~c.cmd THEN UploadResult(c, t, d, FALSE, 0, <<>>)
    ELSE IF ~pixels \/ width = 0 \/ height = 0 THEN UploadResult(c, t, d, FALSE, 0, <<>>)
    ELSE
    LET t1 == [(IF t.image THEN destroy(t) ELSE t) EXCEPT
                   !.width = width, !.height = height,
                   !.mipLevels = calcMipLevels(width, height)]
        staging == d.nextStaging
        d1 == [d EXCEPT !.staging = @ \cup {staging}, !.nextStaging = @ + 1]
        c1 == [c EXCEPT !.pendingStaging = Append(@, staging)]
    IN  IF gpu.fail = "staging" THEN UploadResult(c, t1, d, FALSE, 0, <<>>)
        ELSE IF gpu.fail = "image" THEN UploadResult(c1, t1, d1, FALSE, staging, <<>>)
        ELSE
        LET t2 == [t1 EXCEPT !.image = TRUE, !.memory = TRUE]
            first == << Transition("UNDEFINED", "TRANSFER_DST"), CopyBufferToImage(staging) >>
            okMips == t2.mipLevels > 1 /\ gpu.mips
            cmds == first \o
                    (IF okMips THEN << GenerateMipmaps(t2.mipLevels) >>
                     ELSE << Transition("TRANSFER_DST", "SHADER_READ_ONLY") >>)
            c2 == [c1 EXCEPT !.recorded = @ + Len(cmds)]
        IN  IF gpu.fail = "view" THEN UploadResult(c2, t2, d1, FALSE, staging, cmds)
            ELSE
            LET t4 == [t2 EXCEPT !.view = TRUE, !.viewMips = t2.mipLevels]
            IN  IF gpu.fail = "sampler" THEN UploadResult(c2, t4, d1, FALSE, staging, cmds)
                ELSE UploadResult(c2,
                                  [t4 EXCEPT !.sampler = TRUE,
                                             !.samplerMaxLod = IF t4.mipLevels > 0
                                                               THEN t4.mipLevels - 1 ELSE 0],
                                  d1, TRUE, staging, cmds)

\* an upload that destroys the texture's resources before it checks its arguments
uploadRGBA8_Deferred_destroysFirst(c, t, d, pixels, width, height, gpu) ==
    IF ~c.begun \/ ~c.cmd THEN UploadResult(c, destroy(t), d, FALSE, 0, <<>>)
    ELSE IF ~pixels \/ width = 0 \/ height = 0 THEN UploadResult(c, destroy(t), d, FALSE, 0, <<>>)
    ELSE
    LET t1 == [(IF t.image THEN destroy(t) ELSE t) EXCEPT
                   !.width = width, !.height = height,
                   !.mipLevels = calcMipLevels(width, height)]
        staging == d.nextStaging
        d1 == [d EXCEPT !.staging = @ \cup {staging}, !.nextStaging = @ + 1]
        c1 == [c EXCEPT !.pendingStaging = Append(@, staging)]
    IN  IF gpu.fail = "staging" THEN UploadResult(c, t1, d, FALSE, 0, <<>>)
        ELSE IF gpu.fail = "image" THEN UploadResult(c1, t1, d1, FALSE, staging, <<>>)
        ELSE
        LET t2 == [t1 EXCEPT !.image = TRUE, !.memory = TRUE]
            first == << Transition("UNDEFINED", "TRANSFER_DST"), CopyBufferToImage(staging) >>
            okMips == t2.mipLevels > 1 /\ gpu.mips
            cmds == first \o
                    (IF okMips THEN << GenerateMipmaps(t2.mipLevels) >>
                     ELSE << Transition("TRANSFER_DST", "SHADER_READ_ONLY") >>)
            t3 == IF okMips THEN t2 ELSE [t2 EXCEPT !.mipLevels = 1]
            c2 == [c1 EXCEPT !.recorded = @ + Len(cmds)]
        IN  IF gpu.fail = "view" THEN UploadResult(c2, t3, d1, FALSE, staging, cmds)
            ELSE
            LET t4 == [t3 EXCEPT !.view = TRUE, !.viewMips = t3.mipLevels]
            IN  IF gpu.fail = "sampler" THEN UploadResult(c2, t4, d1, FALSE, staging, cmds)
                ELSE UploadResult(c2,
                                  [t4 EXCEPT !.sampler = TRUE,
                                             !.samplerMaxLod = IF t4.mipLevels > 0
                                                               THEN t4.mipLevels - 1 ELSE 0],
                                  d1, TRUE, staging, cmds)

\* TextureAsset::uploadRGBA8_Deferred(ctx, rgbaPixels, width, height, ...): c, t and d
\* are the context, the texture and the device before the call, pixels tells whether
\* rgbaPixels is set; staging is the buffer the call created (0: none) and cmds the
\* commands it recorded
uploadRGBA8_Deferred(c, t, d, pixels, width, height, gpu) ==
    IF ~c.begun \/ ~c.cmd THEN UploadResult(c, t, d, FALSE, 0, <<>>)
    ELSE IF ~pixels \/ width = 0 \/ height = 0 THEN UploadResult(c, t, d, FALSE, 0, <<>>)
    ELSE
    LET t1 == [(IF t.image THEN destroy(t) ELSE t) EXCEPT
                   !.width = width, !.height = height,
                   !.mipLevels = calcMipLevels(width, height)]
        staging == d.nextStaging
        d1 == [d EXCEPT !.staging = @ \cup {staging}, !.nextStaging = @ + 1]
        c1 == [c EXCEPT !.pendingStaging = Append(@, staging)]
    IN  IF gpu.fail = "staging" THEN UploadResult(c, t1, d, FALSE, 0, <<>>)
        ELSE IF gpu.fail = "image" THEN UploadResult(c1, t1, d1, FALSE, staging, <<>>)
        ELSE
        LET t2 == [t1 EXCEPT !.image = TRUE, !.memory = TRUE]
            first == << Transition("UNDEFINED", "TRANSFER_DST"), CopyBufferToImage(staging) >>
            okMips == t2.mipLevels > 1 /\ gpu.mips
            cmds == first \o
                    (IF okMips THEN << GenerateMipmaps(t2.mipLevels) >>
                     ELSE << Transition("TRANSFER_DST", "SHADER_READ_ONLY") >>)
            t3 == IF okMips THEN t2 ELSE [t2 EXCEPT !.mipLevels = 1]
            c2 == [c1 EXCEPT !.recorded = @ + Len(cmds)]
        IN  IF gpu.fail = "view" THEN UploadResult(c2, t3, d1, FALSE, staging, cmds)
            ELSE
            LET t4 == [t3 EXCEPT !.view = TRUE, !.viewMips = t3.mipLevels]
            IN  IF gpu.fail = "sampler" THEN UploadResult(c2, t4, d1, FALSE, staging, cmds)
                ELSE UploadResult(c2,
                                  [t4 EXCEPT !.sampler = TRUE,
                                             !.samplerMaxLod = IF t4.mipLevels > 0
                                                               THEN t4.mipLevels - 1 ELSE 0],
                                  d1, TRUE, staging, cmds)

\* BeginUploadContext: opens the transaction unless the command buffer cannot be had
BeginUploadContext(c, ok) ==
    IF ok THEN [NewUploadContext EXCEPT !.begun = TRUE, !.cmd = TRUE] ELSE NewUploadContext

\* EndSubmitAndWait: submits what was recorded, waits, then releases every pending
\* staging buffer
EndSubmitAndWait(c, d) ==
    [ctx |-> NewUploadContext,
     dev |-> [d EXCEPT !.staging = @ \ {c.pendingStaging[i] : i \in 1..Len(c.pendingStaging)}]]

\* widths and heights of decoded images
Dims == (0..MaxDim) \cup {U32Max}

NoUpload == [op |-> "none", ret |-> FALSE, pixels |-> FALSE,
             gpu |-> [fail |-> "none", mips |-> FALSE], staging |-> 0, cmds |-> <<>>]

UploadInit ==
    /\ ctx = NewUploadContext /\ tex = NewTextureAsset /\ dev = NewDevice
    /\ upl = NoUpload

Begin ==
    /\ ~ctx.begun
    /\ \E ok \in BOOLEAN : ctx' = BeginUploadContext(ctx, ok)
    /\ upl' = [NoUpload EXCEPT !.op = "begin"]
    /\ UNCHANGED <<tex, dev, img, mgrVars, parseVars, strVars, heldVars>>

\* std::make_unique<TextureAsset>(): the next texture of the load
NewTexture ==
    /\ tex # NewTextureAsset
    /\ tex' = NewTextureAsset
    /\ upl' = [NoUpload EXCEPT !.op = "texture"]
    /\ UNCHANGED <<ctx, dev, img, mgrVars, parseVars, strVars, heldVars>>

Upload ==
    /\ dev.uploads < MaxUploads
    /\ \E pixels \in BOOLEAN, gpu \in GpuAnswers :
          LET r == uploadRGBA8_Deferred(ctx, tex, dev, pixels, img.width, img.height, gpu)
          IN  /\ ctx' = r.ctx /\ tex' = r.tex
              /\ dev' = [r.dev EXCEPT !.uploads = @ + 1]
              /\ upl' = [op |-> "upload", ret |-> r.ret, pixels |-> pixels, gpu |-> gpu,
                         staging |-> r.staging, cmds |-> r.cmds]
    /\ UNCHANGED <<img, mgrVars, parseVars, strVars, heldVars>>

End ==
    /\ ctx.begun
    /\ ctx' = EndSubmitAndWait(ctx, dev).ctx
    /\ dev' = EndSubmitAndWait(ctx, dev).dev
    /\ upl' = [NoUpload EXCEPT !.op = "end"]
    /\ UNCHANGED <<tex, img, mgrVars, parseVars, strVars, heldVars>>

----------------------------------------------------------------------------
\* Handles and registries (one registry per resource kind: identifier -> entry)

Kinds == {"mesh", "texture", "material", "model"}
Registry == [mesh |-> "meshes", texture |-> "textures",
             material |-> "materials", model |-> "models"]

Handle(id, generation) == [id |-> id, generation |-> generation]
InvalidHandle == Handle(0, 0)
isValid(h) == h.id # 0

\* the AssetManager's members as one value
Manager ==
    [meshes |-> m_meshes, textures |-> m_textures,
     materials |-> m_materials, models |-> m_models,
     nextMeshID |-> m_nextMeshID, nextTextureID |-> m_nextTextureID,
     nextMaterialID |-> m_nextMaterialID, nextModelID |-> m_nextModelID,
     meshPathCache |-> m_meshPathCache, modelPathCache |-> m_modelPathCache]

NewManager ==
    [meshes |-> <<>>, textures |-> <<>>, materials |-> <<>>, models |-> <<>>,
     nextMeshID |-> 1, nextTextureID |-> 1, nextMaterialID |-> 1, nextModelID |-> 1,
     meshPathCache |-> <<>>, modelPathCache |-> <<>>]

\* it = registry.find(h.id); it != end && it->second.generation == h.generation
Resolves(reg, h) == h.id \in DOMAIN reg /\ reg[h.id].generation = h.generation

\* a get that looks the identifier up but does not compare generations
get_ignoresGeneration(M, kind, h) == h.id \in DOMAIN M[Registry[kind]]

\* getMesh / getTexture / getMaterial / getModel: TRUE for an asset, FALSE for nullptr
get(M, kind, h) ==
    LET reg == M[Registry[kind]]
    IN  IF h.id \notin DOMAIN reg THEN FALSE
        ELSE IF reg[h.id].generation # h.generation THEN FALSE
        ELSE TRUE

\* an addRef that looks the identifier up but does not compare generations
addRef_ignoresGeneration(M, kind, h) ==
    IF h.id \in DOMAIN M[Registry[kind]]
    THEN [M EXCEPT ![Registry[kind]][h.id].refCount = @ + 1]
    ELSE M

\* an addRef that counts the reference in every registry where the handle resolves
addRef_anyKind(M, kind, h) ==
    [r \in DOMAIN M |->
        IF r \in {Registry[k] : k \in Kinds} /\ Resolves(M[r], h)
        THEN [M[r] EXCEPT ![h.id].refCount = @ + 1]
        ELSE M[r]]

\* addRef(XHandle)
addRef(M, kind, h) ==
    LET reg == M[Registry[kind]]
    IN  IF Resolves(reg, h)
        THEN [M EXCEPT ![Registry[kind]][h.id].refCount = @ + 1]
        ELSE M

\* a release that decrements whatever the count is
release_unguarded(M, kind, h) ==
    IF Resolves(M[Registry[kind]], h)
    THEN [M EXCEPT ![Registry[kind]][h.id].refCount = @ - 1]
    ELSE M

\* a release that destroys the entry as soon as its count reaches 0
release_erasesAtZero(M, kind, h) ==
    LET reg == M[Registry[kind]]
    IN  IF Resolves(reg, h) /\ reg[h.id].refCount > 0
        THEN IF reg[h.id].refCount = 1
             THEN [M EXCEPT ![Registry[kind]] = [id \in (DOMAIN reg) \ {h.id} |-> reg[id]]]
             ELSE [M EXCEPT ![Registry[kind]][h.id].refCount = @ - 1]
        ELSE M

\* a release that, when a model's count reaches 0, also drops one reference of each
\* mesh the model depends on
release_dropsMeshRefs(M, kind, h) ==
    LET reg == M[Registry[kind]]
    IN  IF Resolves(reg, h) /\ reg[h.id].refCount > 0
        THEN IF kind = "model" /\ reg[h.id].refCount = 1
             THEN [M EXCEPT !.models[h.id].refCount = 0,
                            !.meshes = [x \in DOMAIN @ |->
                                IF /\ \E i \in 1..Len(reg[h.id].meshDeps) :
                                        reg[h.id].meshDeps[i].id = x
                                   /\ @[x].refCount > 0
                                THEN [@[x] EXCEPT !.refCount = @ - 1]
                                ELSE @[x]]]
             ELSE [M EXCEPT ![Registry[kind]][h.id].refCount = @ - 1]
        ELSE M

\* release(XHandle)
release(M, kind, h) ==
    LET reg == M[Registry[kind]]
    IN  IF Resolves(reg, h)
        THEN IF reg[h.id].refCount > 0
             THEN [M EXCEPT ![Registry[kind]][h.id].refCount = @ - 1]
             ELSE M
        ELSE M

RECURSIVE addRefAll(_, _, _)
addRefAll(M, kind, hs) ==
    IF hs = <<>> THEN M ELSE addRefAll(addRef(M, kind, Head(hs)), kind, Tail(hs))

\* a release of a dependency list that stops after its first handle
releaseAll_firstOnly(M, kind, hs) ==
    IF hs = <<>> THEN M ELSE release(M, kind, Head(hs))

RECURSIVE releaseAll(_, _, _)
releaseAll(M, kind, hs) ==
    IF hs = <<>> THEN M ELSE releaseAll(release(M, kind, Head(hs)), kind, Tail(hs))

\* a map without the keys in ks (erase)
Erase(map, ks) == [k \in (DOMAIN map) \ ks |-> map[k]]
\* map.emplace(k, v): no effect when k is present
Emplace(map, k, v) ==
    IF k \in DOMAIN map THEN map
    ELSE [x \in (DOMAIN map) \cup {k} |-> IF x = k THEN v ELSE map[x]]

\* createTexture_Internal(tex, initialRef)
createTexture_Internal(M, initialRef) ==
    LET id == M.nextTextureID
    IN  [M |-> [M EXCEPT !.nextTextureID = id + 1,
                         !.textures = Emplace(@, id, [generation |-> 1, refCount |-> initialRef])],
         h |-> Handle(id, 1)]

\* createMaterial_Internal(mat, initialRef): mat holds the five texture handles
createMaterial_Internal(M, mat, initialRef) ==
    LET id == M.nextMaterialID
        deps == SelectSeq([s \in 1..5 |-> mat[MaterialSlots[s]]], isValid)
    IN  [M |-> [M EXCEPT !.nextMaterialID = id + 1,
                         !.materials = Emplace(@, id,
                             [generation |-> 1, refCount |-> initialRef,
                              asset |-> mat, textureDeps |-> deps])],
         h |-> Handle(id, 1)]

\* a createModel_Internal that hands out the smallest identifier not in use
createModel_Internal_reusesIds(M, model, path, initialRef) ==
    LET id == Min((1..M.nextModelID) \ DOMAIN M.models)
    IN  [M |-> [M EXCEPT !.nextModelID = IF id = @ THEN @ + 1 ELSE @,
                         !.models = Emplace(@, id,
                             [generation |-> 1, refCount |-> initialRef, path |-> path,
                              asset |-> model, meshDeps |-> <<>>, materialDeps |-> <<>>])],
         h |-> Handle(id, 1)]

\* createModel_Internal(model, path, initialRef)
createModel_Internal(M, model, path, initialRef) ==
    LET id == M.nextModelID
    IN  [M |-> [M EXCEPT !.nextModelID = id + 1,
                         !.models = Emplace(@, id,
                             [generation |-> 1, refCount |-> initialRef, path |-> path,
                              asset |-> model, meshDeps |-> <<>>, materialDeps |-> <<>>])],
         h |-> Handle(id, 1)]

\* a createMeshFromData_Internal that takes the identifier before the upload is known
\* to have succeeded
createMeshFromData_Internal_countsFirst(M, path, initialRef, gpu) ==
    IF gpu = "pool" THEN [M |-> M, h |-> InvalidHandle, pools |-> 0, destroyed |-> 0]
    ELSE LET id == M.nextMeshID
             N == [M EXCEPT !.nextMeshID = id + 1]
         IN  IF gpu = "upload"
             THEN [M |-> N, h |-> InvalidHandle, pools |-> 1, destroyed |-> 1]
             ELSE [M |-> [N EXCEPT !.meshes = Emplace(@, id,
                                  [generation |-> 1, refCount |-> initialRef, path |-> path])],
                   h |-> Handle(id, 1), pools |-> 1, destroyed |-> 1]

\* createMeshFromData_Internal(data, path, initialRef); gpu is what the device does:
\* "ok", "pool" (vkCreateCommandPool fails) or "upload" (MeshAsset::upload fails)
createMeshFromData_Internal(M, path, initialRef, gpu) ==
    IF gpu = "pool" THEN [M |-> M, h |-> InvalidHandle, pools |-> 0, destroyed |-> 0]
    ELSE IF gpu = "upload" THEN [M |-> M, h |-> InvalidHandle, pools |-> 1, destroyed |-> 1]
    ELSE LET id == M.nextMeshID
         IN  [M |-> [M EXCEPT !.nextMeshID = id + 1,
                              !.meshes = Emplace(@, id,
                                  [generation |-> 1, refCount |-> initialRef, path |-> path])],
              h |-> Handle(id, 1), pools |-> 1, destroyed |-> 1]

----------------------------------------------------------------------------
\* loadModel

TexOutcomes == {"ok", "decode", "device"}
MeshOutcomes == {"ok", "pool", "upload"}

to_string(i) == <<"0", "1", "2", "3", "4", "5", "6", "7", "8", "9">>[i + 1]

\* uploadEncodedImage_Deferred on texture record t: it fails at once on an empty
\* image, and otherwise does what the decoder and the device (gpu) allow
uploadEncodedImage_Deferred(t, gpu) ==
    IF t.imageDataSize = 0 THEN "empty" ELSE gpu

CallLog(failed, poolsCreated, poolsDestroyed, begun, submits) ==
    [failed |-> failed, poolsCreated |-> poolsCreated, poolsDestroyed |-> poolsDestroyed,
     begun |-> begun, submits |-> submits]

\* a texture loop that registers each texture with an initial reference
RECURSIVE UploadTextures_initialRefOne(_, _, _, _)
UploadTextures_initialRefOne(M, f, gpuTex, handles) ==
    LET i == Len(handles)
    IN  IF i >= f.header.textureCount
        THEN [M |-> M, handles |-> handles, ok |-> TRUE]
        ELSE IF uploadEncodedImage_Deferred(At(f.textures, i), gpuTex[i + 1]) # "ok"
        THEN [M |-> M, handles |-> handles, ok |-> FALSE]
        ELSE LET c == createTexture_Internal(M, 1)
             IN  UploadTextures_initialRefOne(c.M, f, gpuTex, Append(handles, c.h))

\* Lines 539-578: the texture loop, from record Len(handles) on
RECURSIVE UploadTextures(_, _, _, _)
UploadTextures(M, f, gpuTex, handles) ==
    LET i == Len(handles)
    IN  IF i >= f.header.textureCount
        THEN [M |-> M, handles |-> handles, ok |-> TRUE]
        ELSE IF uploadEncodedImage_Deferred(At(f.textures, i), gpuTex[i + 1]) # "ok"
        THEN [M |-> M, handles |-> handles, ok |-> FALSE]
        ELSE LET c == createTexture_Internal(M, 0)
             IN  UploadTextures(c.M, f, gpuTex, Append(handles, c.h))

\* Lines 617-622
grabTex(textureHandles, idx) ==
    IF idx < 0 THEN InvalidHandle ELSE textureHandles[idx + 1]

\* a material loop that records the texture dependencies without counting them
RECURSIVE CreateMaterials_texturesNotCounted(_, _, _, _)
CreateMaterials_texturesNotCounted(M, f, textureHandles, handles) ==
    LET i == Len(handles)
    IN  IF i >= f.header.materialCount
        THEN [M |-> M, handles |-> handles]
        ELSE LET m == At(f.materials, i)
                 mat == [s \in {MaterialSlots[k] : k \in 1..5} |->
                            grabTex(textureHandles, m[s])]
                 c == createMaterial_Internal(M, mat, 0)
             IN  CreateMaterials_texturesNotCounted(c.M, f, textureHandles,
                                                    Append(handles, c.h))

\* Lines 596-655: the material loop
RECURSIVE CreateMaterials(_, _, _, _)
CreateMaterials(M, f, textureHandles, handles) ==
    LET i == Len(handles)
    IN  IF i >= f.header.materialCount
        THEN [M |-> M, handles |-> handles]
        ELSE LET m == At(f.materials, i)
                 mat == [s \in {MaterialSlots[k] : k \in 1..5} |->
                            grabTex(textureHandles, m[s])]
                 c == createMaterial_Internal(M, mat, 0)
                 used == SelectSeq([k \in 1..5 |-> mat[MaterialSlots[k]]], isValid)
                 M2 == IF get(c.M, "material", c.h)
                       THEN addRefAll(c.M, "texture", used)
                       ELSE c.M
             IN  CreateMaterials(M2, f, textureHandles, Append(handles, c.h))

\* Lines 664-697: the mesh loop
RECURSIVE CreateMeshes(_, _, _, _, _, _)
CreateMeshes(M, f, path, gpuMesh, handles, pools) ==
    LET i == Len(handles)
    IN  IF i >= f.header.meshCount
        THEN [M |-> M, handles |-> handles, pools |-> pools]
        ELSE LET c == createMeshFromData_Internal(M, path \o <<"#mesh", to_string(i)>>,
                                                  0, gpuMesh[i + 1])
             IN  CreateMeshes(c.M, f, path, gpuMesh, Append(handles, c.h), pools + c.pools)

\* a primitive loop that lists the material of each primitive without counting it
RECURSIVE BuildPrimitives_materialNotCounted(_, _, _, _, _, _, _)
BuildPrimitives_materialNotCounted(M, f, meshHandles, materialHandles, prims, meshDeps, matDeps) ==
    LET i == Len(prims)
    IN  IF i >= f.header.primitiveCount
        THEN [M |-> M, primitives |-> prims, meshDeps |-> meshDeps, matDeps |-> matDeps]
        ELSE LET p == At(f.primitives, i)
                 prim == [mesh |-> meshHandles[p.meshIndex + 1],
                          material |-> materialHandles[p.materialIndex + 1]]
                 M1 == IF isValid(prim.mesh) THEN addRef(M, "mesh", prim.mesh) ELSE M
             IN  BuildPrimitives_materialNotCounted(M1, f, meshHandles, materialHandles,
                    Append(prims, prim),
                    IF isValid(prim.mesh) THEN Append(meshDeps, prim.mesh) ELSE meshDeps,
                    IF isValid(prim.material) THEN Append(matDeps, prim.material) ELSE matDeps)

\* Lines 712-737: the primitive loop
RECURSIVE BuildPrimitives(_, _, _, _, _, _, _)
BuildPrimitives(M, f, meshHandles, materialHandles, prims, meshDeps, matDeps) ==
    LET i == Len(prims)
    IN  IF i >= f.header.primitiveCount
        THEN [M |-> M, primitives |-> prims, meshDeps |-> meshDeps, matDeps |-> matDeps]
        ELSE LET p == At(f.primitives, i)
                 prim == [mesh |-> meshHandles[p.meshIndex + 1],
                          material |-> materialHandles[p.materialIndex + 1]]
                 M1 == IF isValid(prim.mesh) THEN addRef(M, "mesh", prim.mesh) ELSE M
                 M2 == IF isValid(prim.material)
                       THEN addRef(M1, "material", prim.material) ELSE M1
             IN  BuildPrimitives(M2, f, meshHandles, materialHandles, Append(prims, prim),
                    IF isValid(prim.mesh) THEN Append(meshDeps, prim.mesh) ELSE meshDeps,
                    IF isValid(prim.material) THEN Append(matDeps, prim.material) ELSE matDeps)

\* Lines 589-751: materials, meshes, primitives and the model, after the upload
BuildModel(M, path, f, gpu, textureHandles) ==
    LET mats == CreateMaterials(M, f, textureHandles, <<>>)
        meshes == CreateMeshes(mats.M, f, path, gpu.mesh, <<>>, 0)
        prims == BuildPrimitives(meshes.M, f, meshes.handles, mats.handles, <<>>, <<>>, <<>>)
        c == createModel_Internal(prims.M, [primitives |-> prims.primitives], path, 1)
        M1 == IF c.h.id \in DOMAIN c.M.models
              THEN [c.M EXCEPT !.models[c.h.id].meshDeps = prims.meshDeps,
                               !.models[c.h.id].materialDeps = prims.matDeps]
              ELSE c.M
        M2 == [M1 EXCEPT !.modelPathCache = Emplace(@, path, c.h)]
        failed == IF \E k \in 1..Len(meshes.handles) : ~isValid(meshes.handles[k])
                  THEN {"mesh"} ELSE {}
    IN  [M |-> M2, ret |-> c.h,
         log |-> CallLog(failed, 1 + meshes.pools, 1 + meshes.pools, 1, 1)]

\* a loadModel that submits and waits once for every texture it recorded
loadModelParsed_submitPerTexture(M, path, f, gpu) ==
    IF ~gpu.pool
    THEN [M |-> M, ret |-> InvalidHandle, log |-> CallLog({"pool"}, 0, 0, 0, 0)]
    ELSE IF ~gpu.begin
    THEN [M |-> M, ret |-> InvalidHandle, log |-> CallLog({"begin"}, 1, 1, 0, 0)]
    ELSE LET t == UploadTextures(M, f, gpu.tex, <<>>)
         IN  IF ~t.ok
             THEN [M |-> t.M, ret |-> InvalidHandle,
                   log |-> CallLog({"texture"}, 1, 1, 1, Len(t.handles))]
             ELSE IF ~gpu.end
             THEN [M |-> t.M, ret |-> InvalidHandle,
                   log |-> CallLog({"submit"}, 1, 1, 1, Len(t.handles))]
             ELSE [BuildModel(t.M, path, f, gpu, t.handles) EXCEPT
                      !.log.submits = Len(t.handles)]

\* Lines 513-751: loadModel once the container has been parsed
loadModelParsed(M, path, f, gpu) ==
    IF ~gpu.pool
    THEN [M |-> M, ret |-> InvalidHandle, log |-> CallLog({"pool"}, 0, 0, 0, 0)]
    ELSE IF ~gpu.begin
    THEN [M |-> M, ret |-> InvalidHandle, log |-> CallLog({"begin"}, 1, 1, 0, 0)]
    ELSE LET t == UploadTextures(M, f, gpu.tex, <<>>)
         IN  IF ~t.ok
             THEN [M |-> t.M, ret |-> InvalidHandle, log |-> CallLog({"texture"}, 1, 1, 1, 1)]
             ELSE IF ~gpu.end
             THEN [M |-> t.M, ret |-> InvalidHandle, log |-> CallLog({"submit"}, 1, 1, 1, 1)]
             ELSE BuildModel(t.M, path, f, gpu, t.handles)

\* a cache hit that hands the cached handle out without counting the reference
loadModel_hitWithoutAddRef(M, path, f, parsed, gpu) ==
    IF path \in DOMAIN M.modelPathCache
    THEN [M |-> M, ret |-> M.modelPathCache[path], log |-> CallLog({}, 0, 0, 0, 0)]
    ELSE IF ~parsed.ok
    THEN [M |-> M, ret |-> InvalidHandle, log |-> CallLog({"parse"}, 0, 0, 0, 0)]
    ELSE loadModelParsed(M, path, f, gpu)

\* a loadModel that creates its command pool before it parses the container
loadModel_poolBeforeParse(M, path, f, parsed, gpu) ==
    IF path \in DOMAIN M.modelPathCache
    THEN [M |-> addRef(M, "model", M.modelPathCache[path]),
          ret |-> M.modelPathCache[path], log |-> CallLog({}, 0, 0, 0, 0)]
    ELSE IF ~gpu.pool
    THEN [M |-> M, ret |-> InvalidHandle, log |-> CallLog({"pool"}, 0, 0, 0, 0)]
    ELSE IF ~parsed.ok
    THEN [M |-> M, ret |-> InvalidHandle, log |-> CallLog({"parse"}, 1, 1, 0, 0)]
    ELSE loadModelParsed(M, path, f, gpu)

\* loadModel(cookedModelPath): f is the file at that path, parsed what LoadSModelFile
\* returns for it, gpu what the device does
loadModel(M, path, f, parsed, gpu) ==
    IF path \in DOMAIN M.modelPathCache
    THEN [M |-> addRef(M, "model", M.modelPathCache[path]),
          ret |-> M.modelPathCache[path], log |-> CallLog({}, 0, 0, 0, 0)]
    ELSE IF ~parsed.ok
    THEN [M |-> M, ret |-> InvalidHandle, log |-> CallLog({"parse"}, 0, 0, 0, 0)]
    ELSE loadModelParsed(M, path, f, gpu)

----------------------------------------------------------------------------
\* loadMesh(cookedMeshPath): readOk is LoadSMeshV0FromFile's answer
loadMesh(M, path, readOk, gpu) ==
    IF path \in DOMAIN M.meshPathCache
    THEN [M |-> addRef(M, "mesh", M.meshPathCache[path]),
          ret |-> M.meshPathCache[path], log |-> CallLog({}, 0, 0, 0, 0)]
    ELSE IF ~readOk
    THEN [M |-> M, ret |-> InvalidHandle, log |-> CallLog({"read"}, 0, 0, 0, 0)]
    ELSE LET c == createMeshFromData_Internal(M, path, 1, gpu)
         IN  [M |-> IF isValid(c.h)
                    THEN [c.M EXCEPT !.meshPathCache = Emplace(@, path, c.h)]
                    ELSE c.M,
              ret |-> c.h,
              log |-> CallLog(IF isValid(c.h) THEN {} ELSE {"mesh"}, c.pools, c.destroyed, 0, 0)]

----------------------------------------------------------------------------
\* garbageCollect: four sweeps, each over the entries whose refCount is 0

Dead(reg) == {id \in DOMAIN reg : reg[id].refCount = 0}

\* a model sweep that leaves the path cache entries of the models it removes
RECURSIVE SweepModels_keepsCacheEntry(_, _)
SweepModels_keepsCacheEntry(M, ids) ==
    IF ids = {} THEN M
    ELSE LET id == Min(ids)
             e == M.models[id]
             M1 == releaseAll(M, "mesh", e.meshDeps)
             M2 == releaseAll(M1, "material", e.materialDeps)
         IN  SweepModels_keepsCacheEntry([M2 EXCEPT !.models = Erase(@, {id})], ids \ {id})

\* Lines 787-804
RECURSIVE SweepModels(_, _)
SweepModels(M, ids) ==
    IF ids = {} THEN M
    ELSE LET id == Min(ids)
             e == M.models[id]
             M1 == releaseAll(M, "mesh", e.meshDeps)
             M2 == releaseAll(M1, "material", e.materialDeps)
         IN  SweepModels([M2 EXCEPT !.modelPathCache = Erase(@, {e.path}),
                                    !.models = Erase(@, {id})],
                         ids \ {id})

\* a material sweep that forgets to release the textures of the materials it removes
SweepMaterials_keepTextureRefs(M, ids) == [M EXCEPT !.materials = Erase(@, ids)]

\* Lines 807-820
RECURSIVE SweepMaterials(_, _)
SweepMaterials(M, ids) ==
    IF ids = {} THEN M
    ELSE LET id == Min(ids)
             M1 == releaseAll(M, "texture", M.materials[id].textureDeps)
         IN  SweepMaterials([M1 EXCEPT !.materials = Erase(@, {id})], ids \ {id})

\* Lines 823-837
RECURSIVE SweepMeshes(_, _)
SweepMeshes(M, ids) ==
    IF ids = {} THEN M
    ELSE LET id == Min(ids)
         IN  SweepMeshes([M EXCEPT !.meshPathCache = Erase(@, {M.meshes[id].path}),
                                   !.meshes = Erase(@, {id})],
                         ids \ {id})

\* Lines 840-852
SweepTextures(M) == [M EXCEPT !.textures = Erase(@, Dead(M.textures))]

\* a collection pass that sweeps the textures before the materials
garbageCollect_texturesFirst(M) ==
    LET M1 == SweepModels(M, Dead(M.models))
        M2 == SweepTextures(M1)
        M3 == SweepMaterials(M2, Dead(M2.materials))
    IN  SweepMeshes(M3, Dead(M3.meshes))

\* Lines 784-853
garbageCollect(M) ==
    LET M1 == SweepModels(M, Dead(M.models))
        M2 == SweepMaterials(M1, Dead(M1.materials))
        M3 == SweepMeshes(M2, Dead(M2.meshes))
    IN  SweepTextures(M3)

----------------------------------------------------------------------------
\* The files on disk

\* two primitives on two meshes sharing material 0, which uses texture 0 twice;
\* material 1 (using texture 1) is used by no primitive
TwoPrimitives ==
    [meshes |-> << SModelMeshRecord(32, 1, 3, 0, 0, 32), SModelMeshRecord(16, 2, 3, 1, 40, 72) >>,
     primitives |-> << SModelPrimitiveRecord(0, 0), SModelPrimitiveRecord(1, 0) >>,
     materials |-> << SModelMaterialRecord(0, 0, 0 - 1, 0 - 1, 0 - 1),
                      SModelMaterialRecord(1, 0 - 1, 0 - 1, 0 - 1, 0 - 1) >>,
     textures |-> << SModelTextureRecord(84, 8), SModelTextureRecord(92, 4) >>,
     stringTableSize |-> 8, blobSize |-> 96]

PathA == <<"a.smodel">>
PathB == <<"b.smodel">>
PathBad == <<"bad.smodel">>
PathMissing == <<"missing.smodel">>
ModelPaths == {PathA, PathB, PathBad, PathMissing}

PathMesh == <<"m.smesh">>
MeshPaths == {PathMesh, PathA \o <<"#mesh", "0">>}

ModelFile(path) ==
    IF path = PathA THEN FileV1
    ELSE IF path = PathB THEN Cook(Merge(TwoPrimitives, NoNodesNoAnim))
    ELSE IF path = PathBad THEN [FileV1 EXCEPT !.materials[1].baseColorTexture = 7]
    ELSE [FileV1 EXCEPT !.exists = FALSE]

Disk == [path \in ModelPaths |-> ModelFile(path)]

\* LoadSModelFile(path, view, err) for each file on disk
LoadSModelFileAt == [path \in ModelPaths |-> LoadSModelFile(Disk[path])]

\* What the device may do during one loadModel of file f: everything succeeds, or
\* one step of the upload fails, or any of the mesh uploads fail
AllOk(f) ==
    [pool |-> TRUE, begin |-> TRUE, end |-> TRUE,
     tex |-> [i \in 1..Len(f.textures) |-> "ok"],
     mesh |-> [i \in 1..Len(f.meshes) |-> "ok"]]

GpuScenarios(f) ==
    {[AllOk(f) EXCEPT !.pool = FALSE], [AllOk(f) EXCEPT !.begin = FALSE],
     [AllOk(f) EXCEPT !.end = FALSE]}
    \cup {[AllOk(f) EXCEPT !.tex[i] = o] :
            i \in 1..Len(f.textures), o \in TexOutcomes \ {"ok"}}
    \cup {[AllOk(f) EXCEPT !.mesh = m] : m \in [1..Len(f.meshes) -> MeshOutcomes]}

\* The device is consulted only after a cache miss and a successful parse
DeviceOutcomes(path) ==
    IF path \in DOMAIN m_modelPathCache \/ ~LoadSModelFileAt[path].ok
    THEN {AllOk(Disk[path])}
    ELSE GpuScenarios(Disk[path])

----------------------------------------------------------------------------
\* The AssetManager's operations as steps

\* the identifiers of the entries a call added to each registry
Created(M, N) ==
    [k \in Kinds |-> (DOMAIN N[Registry[k]]) \ (DOMAIN M[Registry[k]])]

\* createdBy is a history variable: for each live model, what its load created
SetManager(M) ==
    /\ m_meshes' = M.meshes /\ m_textures' = M.textures
    /\ m_materials' = M.materials /\ m_models' = M.models
    /\ m_nextMeshID' = M.nextMeshID /\ m_nextTextureID' = M.nextTextureID
    /\ m_nextMaterialID' = M.nextMaterialID /\ m_nextModelID' = M.nextModelID
    /\ m_meshPathCache' = M.meshPathCache /\ m_modelPathCache' = M.modelPathCache
    /\ createdBy' = [id \in DOMAIN M.models |->
                        IF id \in DOMAIN createdBy THEN createdBy[id]
                        ELSE Created(Manager, M)]

\* the model explores identifiers up to MaxID and reference counts up to MaxRef
WithinBounds(M) ==
    /\ M.nextMeshID <= MaxID + 1 /\ M.nextTextureID <= MaxID + 1
    /\ M.nextMaterialID <= MaxID + 1 /\ M.nextModelID <= MaxID + 1
    /\ \A k \in Kinds : \A id \in DOMAIN M[Registry[k]] :
            M[Registry[k]][id].refCount <= MaxRef

\* one more call into the manager, up to MaxCalls of them
Call == calls < MaxCalls /\ calls' = calls + 1

\* last records the latest call: its arguments, what it returned and what it did;
\* pair tells that a release directly follows an addRef of the same handle
NoCall == [op |-> "none", path |-> <<>>, kind |-> "none", h |-> InvalidHandle, pair |-> FALSE,
           ret |-> InvalidHandle, log |-> CallLog({}, 0, 0, 0, 0),
           created |-> [k \in Kinds |-> {}]]

LoadModel(path) ==
    \E gpu \in DeviceOutcomes(path) :
        LET r == loadModel(Manager, path, Disk[path], LoadSModelFileAt[path], gpu)
        IN  /\ Call
            /\ WithinBounds(r.M)
            /\ SetManager(r.M)
            /\ last' = [NoCall EXCEPT !.op = "loadModel", !.path = path, !.ret = r.ret,
                                       !.log = r.log, !.created = Created(Manager, r.M)]
            /\ UNCHANGED <<parseVars, strVars, upVars, heldVars>>

LoadMesh(path) ==
    \E readOk \in BOOLEAN, gpu \in MeshOutcomes :
        LET r == loadMesh(Manager, path, readOk, gpu)
        IN  /\ Call
            /\ WithinBounds(r.M)
            /\ SetManager(r.M)
            /\ last' = [NoCall EXCEPT !.op = "loadMesh", !.path = path, !.ret = r.ret,
                                       !.log = r.log, !.created = Created(Manager, r.M)]
            /\ UNCHANGED <<parseVars, strVars, upVars, heldVars>>

\* handles a caller may present: live, collected, never allocated, wrong generation
UserHandles == {Handle(id, 1) : id \in 1..MaxID} \cup {Handle(1, 2), InvalidHandle}

AddRef(kind, h) ==
    /\ Call
    /\ WithinBounds(addRef(Manager, kind, h))
    /\ SetManager(addRef(Manager, kind, h))
    /\ last' = [NoCall EXCEPT !.op = "addRef", !.kind = kind, !.h = h]
    /\ UNCHANGED <<parseVars, strVars, upVars, heldVars>>

Release(kind, h) ==
    /\ Call
    /\ SetManager(release(Manager, kind, h))
    /\ last' = [NoCall EXCEPT !.op = "release", !.kind = kind, !.h = h,
                               !.pair = (last.op = "addRef" /\ last.kind = kind /\ last.h = h)]
    /\ UNCHANGED <<parseVars, strVars, upVars, heldVars>>

GarbageCollect ==
    /\ Call
    /\ SetManager(garbageCollect(Manager))
    /\ last' = [NoCall EXCEPT !.op = "garbageCollect"]
    /\ UNCHANGED <<parseVars, strVars, upVars, heldVars>>

----------------------------------------------------------------------------
\* no reference is held by a caller
NoneHeld == [k \in Kinds |-> [id \in 1..MaxID |-> 0]]

ManagerInit ==
    /\ m_meshes = NewManager.meshes /\ m_textures = NewManager.textures
    /\ m_materials = NewManager.materials /\ m_models = NewManager.models
    /\ m_nextMeshID = NewManager.nextMeshID /\ m_nextTextureID = NewManager.nextTextureID
    /\ m_nextMaterialID = NewManager.nextMaterialID /\ m_nextModelID = NewManager.nextModelID
    /\ m_meshPathCache = NewManager.meshPathCache
    /\ m_modelPathCache = NewManager.modelPathCache

Init ==
    /\ ManagerInit
    /\ last = NoCall /\ calls = 0 /\ createdBy = <<>>
    /\ file = FileV1 /\ edits = 0 /\ parse = NotParsed
    /\ strView = StringView(FALSE, FALSE, <<>>) /\ strRead = NotRead
    /\ held = NoneHeld
    /\ UploadInit /\ img = [width |-> 1, height |-> 1]

Next ==
    \/ \E path \in ModelPaths : LoadModel(path)
    \/ \E path \in MeshPaths : LoadMesh(path)
    \/ \E kind \in Kinds, h \in UserHandles : AddRef(kind, h)
    \/ \E kind \in Kinds, h \in UserHandles : Release(kind, h)
    \/ GarbageCollect

Spec == Init /\ [][Next]_vars

\* LoadSModelFile on cooked files with up to MaxEdits overwritten fields
InitParse ==
    /\ ManagerInit
    /\ last = NoCall /\ calls = 0 /\ createdBy = <<>>
    /\ file \in {FileV1, FileV3} /\ edits = 0 /\ parse = NotParsed
    /\ strView = StringView(FALSE, FALSE, <<>>) /\ strRead = NotRead
    /\ held = NoneHeld
    /\ UploadInit /\ img = [width |-> 1, height |-> 1]

NextParse == EditFile \/ EditHeader \/ EditRecord \/ EditNumber \/ Parse

SpecParse == InitParse /\ [][NextParse]_vars

\* getStringOrEmpty on views with every string table of up to MaxTable bytes
InitStrings ==
    /\ ManagerInit
    /\ last = NoCall /\ calls = 0 /\ createdBy = <<>>
    /\ file = FileV1 /\ edits = 0 /\ parse = NotParsed
    /\ strView \in StringViews /\ strRead = NotRead
    /\ held = NoneHeld
    /\ UploadInit /\ img = [width |-> 1, height |-> 1]

NextStrings == GetString

SpecStrings == InitStrings /\ [][NextStrings]_vars

\* uploadRGBA8_Deferred of one decoded image, inside and outside transactions
InitUpload ==
    /\ ManagerInit
    /\ last = NoCall /\ calls = 0 /\ createdBy = <<>>
    /\ file = FileV1 /\ edits = 0 /\ parse = NotParsed
    /\ strView = StringView(FALSE, FALSE, <<>>) /\ strRead = NotRead
    /\ held = NoneHeld
    /\ UploadInit /\ img \in [width : Dims, height : Dims]

NextUpload == Begin \/ NewTexture \/ Upload \/ End

SpecUpload == InitUpload /\ [][NextUpload]_vars

----------------------------------------------------------------------------
\* Properties of the AssetManager

Occurrences(hs, h) == Cardinality({i \in 1..Len(hs) : hs[i] = h})

RECURSIVE TextureRefsFrom(_, _, _)
TextureRefsFrom(M, mats, h) ==
    IF mats = {} THEN 0
    ELSE LET m == Min(mats)
         IN  Occurrences(M.materials[m].textureDeps, h) + TextureRefsFrom(M, mats \ {m}, h)

\* every entry the load of model id created and that is still registered holds
\* exactly the references that load took: one per use in the model's dependency
\* lists, and for a texture one per use by a material of that load
OnlyLoadReferences(M, id) ==
    LET c == createdBy[id]
        e == M.models[id]
    IN  /\ \A x \in c["mesh"] \cap DOMAIN M.meshes :
              M.meshes[x].refCount = Occurrences(e.meshDeps, Handle(x, 1))
        /\ \A x \in c["material"] \cap DOMAIN M.materials :
              M.materials[x].refCount = Occurrences(e.materialDeps, Handle(x, 1))
        /\ \A x \in c["texture"] \cap DOMAIN M.textures :
              M.textures[x].refCount =
                  TextureRefsFrom(M, c["material"] \cap DOMAIN M.materials, Handle(x, 1))

\* release(h) until the model's count is 0
RECURSIVE ReleaseToZero(_, _)
ReleaseToZero(M, h) ==
    IF get(M, "model", h) /\ M.models[h.id].refCount > 0
    THEN ReleaseToZero(release(M, "model", h), h)
    ELSE M

\* C1: for every live model whose created meshes, materials and textures hold only
\* the references taken by its load, releasing the model to count 0 and running
\* garbageCollect once leaves no handle of the model or of anything its load
\* created resolving.
C1_ReleaseThenCollectRemovesAll ==
    \A id \in DOMAIN m_models :
        OnlyLoadReferences(Manager, id) =>
            LET h == Handle(id, m_models[id].generation)
                M == garbageCollect(ReleaseToZero(Manager, h))
            IN  /\ ~get(M, "model", h)
                /\ \A k \in Kinds \ {"model"} : \A x \in createdBy[id][k] :
                        ~get(M, k, Handle(x, 1))

\* C1 witness: a model was loaded with a mesh, a material and a texture, released,
\* and the garbageCollect that just ran left all four registries empty
C1_Witness ==
    /\ last.op = "garbageCollect"
    /\ m_nextModelID > 1 /\ m_nextMeshID > 1 /\ m_nextMaterialID > 1 /\ m_nextTextureID > 1
    /\ DOMAIN m_models = {} /\ DOMAIN m_meshes = {}
    /\ DOMAIN m_materials = {} /\ DOMAIN m_textures = {}

\* every outcome of loadModel(path) in the current state, over what the device may do
LoadModelOutcomes(path) ==
    {loadModel(Manager, path, Disk[path], LoadSModelFileAt[path], gpu) :
        gpu \in GpuScenarios(Disk[path])}

\* a second loadModel of a registered model's path, from the current state
SecondLoadIsCacheHit ==
    \A id \in DOMAIN m_models : \A r \in LoadModelOutcomes(m_models[id].path) :
        /\ r.ret = Handle(id, m_models[id].generation)
        /\ r.M.models[id].refCount = m_models[id].refCount + 1
        /\ \A k \in Kinds : DOMAIN r.M[Registry[k]] = DOMAIN Manager[Registry[k]]

\* C2: while a model loaded from path is registered, every loadModel(path) returns
\* that model's handle (same identifier and generation), raises its reference count
\* by exactly 1, and adds no entry to any of the four registries.
C2_SecondLoadIsCacheHit == []SecondLoadIsCacheHit

\* C2 witness: the call that just returned was a loadModel that created nothing and
\* returned a model whose count is now 2
C2_Witness ==
    /\ last.op = "loadModel" /\ isValid(last.ret)
    /\ \A k \in Kinds : last.created[k] = {}
    /\ get(Manager, "model", last.ret)
    /\ m_models[last.ret.id].refCount = 2
    /\ m_models[last.ret.id].path = last.path

\* handles of every shape: each identifier in use or not, either generation, and
\* the default handle
AnyHandles == {Handle(id, g) : id \in 0..(MaxID + 1), g \in 0..2}

\* addRef followed at once by release, from the current state
AddRefReleaseIsIdentity ==
    \A kind \in Kinds : \A h \in AnyHandles :
        release(addRef(Manager, kind, h), kind, h) = Manager

\* C3: in every reachable state, for every kind and every handle, resolving or not,
\* addRef(h) followed at once by release(h) leaves the whole manager state, the
\* count of the entry h names included, as it was.
C3_AddRefReleaseIsIdentity == []AddRefReleaseIsIdentity

\* C3 witness: a release has just undone the addRef called right before it on the
\* same resolving handle
C3_Witness ==
    /\ last.op = "release" /\ last.pair
    /\ get(Manager, last.kind, last.h)
    /\ Manager[Registry[last.kind]][last.h.id].refCount >= 1

\* C4 as stated: a loadModel that missed the cache and in which some stage failed
\* returns an invalid handle, registers no model and caches nothing under its path.
C4_AnyStageFailureRegistersNothing ==
    (last.op = "loadModel" /\ last.log.failed # {}) =>
        /\ ~isValid(last.ret)
        /\ last.created["model"] = {}
        /\ last.path \notin DOMAIN m_modelPathCache

\* loadModel of a container that does not parse, from the current state
ParseFailureChangesNothing ==
    \A path \in ModelPaths :
        ~LoadSModelFileAt[path].ok =>
            \A r \in LoadModelOutcomes(path) :
                /\ r.ret = InvalidHandle
                /\ r.M = Manager
                /\ r.log.poolsCreated = 0 /\ r.log.begun = 0 /\ r.log.submits = 0

\* C5: whenever the container at path does not parse, loadModel(path) returns an
\* invalid handle and leaves registries, path caches and identifier counters as they
\* were, having created no command pool, begun no upload and issued no submit.
C5_ParseFailureChangesNothing == []ParseFailureChangesNothing

\* C5 witness: loadModel has just failed at the parse while entries of every kind
\* were registered
C5_Witness ==
    /\ last.op = "loadModel" /\ last.log.failed = {"parse"}
    /\ ~isValid(last.ret)
    /\ \A k \in Kinds : DOMAIN Manager[Registry[k]] # {}

----------------------------------------------------------------------------
\* Properties of LoadSModelFile

Parsed == parse.stage # "none"

\* C6 as stated: in every accepted container the vertex and index ranges of each
\* mesh record and the image range of each texture record end, as sums of
\* unbounded integers, at or before blobSize.
C6_AcceptedBlobRangesInsideBlob ==
    (Parsed /\ parse.ok) =>
        /\ \A i \in 1..file.header.meshCount :
              /\ file.meshes[i].vertexDataOffset + file.meshes[i].vertexDataSize
                    <= file.header.blobSize
              /\ file.meshes[i].indexDataOffset + file.meshes[i].indexDataSize
                    <= file.header.blobSize
        /\ \A i \in 1..file.header.textureCount :
              file.textures[i].imageDataOffset + file.textures[i].imageDataSize
                    <= file.header.blobSize

\* the byte extents the header declares: the view pointer, where it starts, how
\* many bytes it has, and whether the section is optional (checked only when its
\* count is not 0)
Section(ptr, offset, bytes, optional, count) ==
    [ptr |-> ptr, offset |-> offset, bytes |-> bytes, optional |-> optional, count |-> count]

Sections(h) ==
    { Section("stringTable", h.stringTableOffset, h.stringTableSize, FALSE, 1),
      Section("blob", h.blobOffset, h.blobSize, FALSE, 1),
      Section("meshes", h.meshesOffset, h.meshCount * SizeofMeshRecord, FALSE, h.meshCount),
      Section("primitives", h.primitivesOffset, h.primitiveCount * SizeofPrimitiveRecord,
              FALSE, h.primitiveCount),
      Section("materials", h.materialsOffset, h.materialCount * SizeofMaterialRecord,
              FALSE, h.materialCount),
      Section("textures", h.texturesOffset, h.textureCount * SizeofTextureRecord,
              FALSE, h.textureCount),
      Section("nodes", h.nodesOffset, h.nodeCount * SizeofNodeRecord, TRUE, h.nodeCount),
      Section("nodePrimitiveIndices", h.nodePrimitiveIndicesOffset,
              h.nodePrimitiveIndexCount * SizeofU32, TRUE, h.nodePrimitiveIndexCount),
      Section("nodeChildIndices", h.nodeChildIndicesOffset,
              h.nodeChildIndicesCount * SizeofU32, TRUE, h.nodeChildIndicesCount),
      Section("animClips", h.animClipsOffset, h.animClipsCount * SizeofAnimationClipRecord,
              TRUE, h.animClipsCount),
      Section("animChannels", h.animChannelsOffset,
              h.animChannelsCount * SizeofAnimationChannelRecord, TRUE, h.animChannelsCount),
      Section("animSamplers", h.animSamplersOffset,
              h.animSamplersCount * SizeofAnimationSamplerRecord, TRUE, h.animSamplersCount),
      Section("animTimes", h.animTimesOffset, h.animTimesCount * SizeofFloat,
              TRUE, h.animTimesCount),
      Section("animValues", h.animValuesOffset, h.animValuesCount * SizeofFloat,
              TRUE, h.animValuesCount) }

ExceedsFile(s) == s.offset + s.bytes > file.size

\* every non-null pointer of the accepted view refers to bytes inside the file
AcceptedPointersInsideFile ==
    (Parsed /\ parse.ok) =>
        /\ parse.view["header"] = 0 /\ SizeofHeader <= file.size
        /\ \A s \in Sections(file.header) :
              parse.view[s.ptr] # NullPtr =>
                  /\ parse.view[s.ptr] = s.offset
                  /\ 0 <= s.offset /\ s.offset + s.bytes <= file.size

FailedBeforeRecords == ~parse.ok /\ parse.stage \notin {"records", "done"}

PastSizeCheck == parse.stage \in {"bounds", "pointers", "records", "done"}
ReachedSizeCheck == parse.stage \in {"size"} \/ PastSizeCheck

C9_FailureLeavesViewReset ==
    (Parsed /\ ~parse.ok) => \A p \in ViewPointers : parse.view[p] = NullPtr

\* the checks of LoadSModelFile, grouped in code order
Stages == <<"io", "header", "size", "bounds", "pointers", "records">>

\* the error the checks of one group leave when run on their own
StageError(f, stage) ==
    IF stage = "io"
    THEN IF ~f.exists THEN "Failed to open file"
         ELSE IF f.size <= 0 THEN "File is empty"
         ELSE IF ~f.readOk THEN "Failed to read file bytes"
         ELSE IF f.size < SizeofHeader THEN "File too small to contain SModelHeader."
         ELSE ""
    ELSE IF stage = "header"
    THEN IF isHeaderCompatible(f.header) THEN ""
         ELSE "SModel header incompatible (bad magic or unsupported version)."
    ELSE IF stage = "size"
    THEN IF fileSizeMismatch(f.header, f.size)
         THEN "SModel header fileSizeBytes does not match actual file size." ELSE ""
    ELSE IF stage = "bounds" THEN FirstError(SectionBoundsErrors(f.header, f.size))
    ELSE IF stage = "pointers" THEN AnimPtrError(f.header, f.size)
    ELSE FirstError(RecordErrors(f, ViewWithAnim(f.header, f.size)))

StageIndex(stage) == IF stage = "done" THEN 7 ELSE CHOOSE i \in 1..6 : Stages[i] = stage

\* C10: a return of false leaves a non-empty outError, the one of the first group
\* of checks, in code order, that is violated (every earlier group passes); a
\* return of true leaves outError empty and means every group passed.
C10_ErrorNamesFirstViolatedCheck ==
    Parsed =>
        /\ \A i \in 1..(StageIndex(parse.stage) - 1) : StageError(file, Stages[i]) = ""
        /\ parse.ok <=> parse.stage = "done"
        /\ parse.ok => parse.err = ""
        /\ ~parse.ok => parse.err # "" /\ parse.err = StageError(file, parse.stage)

\* C10 witness: a container with two violations, an out-of-range texture index in a
\* material and a mesh vertex slice beyond the blob, was rejected with the error
\* of the mesh check, which comes first
C10_Witness ==
    /\ ~parse.ok /\ parse.stage = "records"
    /\ parse.err = "Mesh vertex data slice out of blob bounds"
    /\ file.materials[1].baseColorTexture = 7

----------------------------------------------------------------------------
\* The upload transaction of loadModel

\* a container without textures: its material names none
NoTextureFile ==
    Cook(Merge([OneOfEach EXCEPT !.textures = <<>>,
                                 !.materials = << SModelMaterialRecord(0 - 1, 0 - 1, 0 - 1,
                                                                       0 - 1, 0 - 1) >>],
               NoNodesNoAnim))

PathNoTexture == <<"notex.smodel">>

NoTextureParse == LoadSModelFile(NoTextureFile)

\* every outcome of loading the container without textures in the current state
NoTextureOutcomes ==
    {loadModel(Manager, PathNoTexture, NoTextureFile, NoTextureParse, gpu) :
        gpu \in GpuScenarios(NoTextureFile)}

\* the submits of the latest loadModel, and of a load without textures from the
\* current state
OneSubmitPerTransaction ==
    /\ last.op = "loadModel" =>
          /\ last.log.begun \in {0, 1}
          /\ last.log.submits = last.log.begun
    /\ NoTextureParse.ok
    /\ \A r \in NoTextureOutcomes : r.log.submits = r.log.begun

\* C11: every loadModel call that began its upload transaction invoked
\* EndSubmitAndWait exactly once, whether all textures were recorded, one failed
\* part-way or the container has no texture, and a call that did not begin a
\* transaction never submitted: N recorded uploads cost one submit-and-wait.
C11_OneSubmitPerTransaction == []OneSubmitPerTransaction

\* C11 witness: the loadModel that just returned recorded two texture uploads and
\* submitted once
C11_Witness ==
    /\ last.op = "loadModel" /\ isValid(last.ret)
    /\ Cardinality(last.created["texture"]) = 2
    /\ last.log.begun = 1 /\ last.log.submits = 1

\* a texture upload failed after one texture had been recorded, and the transaction
\* was still submitted once
C11_WitnessFailure ==
    /\ last.op = "loadModel" /\ last.log.failed = {"texture"}
    /\ Cardinality(last.created["texture"]) = 1
    /\ last.log.submits = 1

----------------------------------------------------------------------------
\* Record validation of LoadSModelFile

\* the number of records of a table the container declares and the file holds
Declared(count, table) == IF count < Len(table) THEN count ELSE Len(table)

\* both slices of mesh record m lie inside the blob
SlicesFitBlob(m) ==
    /\ m.vertexDataOffset + m.vertexDataSize <= file.header.blobSize
    /\ m.indexDataOffset + m.indexDataSize <= file.header.blobSize

\* vertexCount and vertexStride are non-zero and their product is vertexDataSize
VertexSizeConsistent(m) ==
    /\ m.vertexCount # 0 /\ m.vertexStride # 0
    /\ m.vertexDataSize = m.vertexCount * m.vertexStride

\* the slices fit and the factors are non-zero, but the declared size is not the product
VertexSizeMismatch(m) ==
    /\ SlicesFitBlob(m)
    /\ m.vertexCount # 0 /\ m.vertexStride # 0
    /\ m.vertexDataSize # m.vertexCount * m.vertexStride

\* 4 vertices of stride 32 with a declared vertexDataSize of 100, in a blob of 160
MismatchExample ==
    LET f == Cook(Merge([OneOfEach EXCEPT
                            !.meshes = << SModelMeshRecord(32, 4, 3, 0, 0, 128) >>,
                            !.textures = << SModelTextureRecord(136, 16) >>,
                            !.blobSize = 160],
                        NoNodesNoAnim))
    IN  [f EXCEPT !.meshes[1].vertexDataSize = 100]

MismatchParse == LoadSModelFile(MismatchExample)

\* C12: LoadSModelFile fails on every container with a mesh record whose slices fit
\* the blob and whose vertexCount and vertexStride are non-zero but whose
\* vertexDataSize is not vertexCount * vertexStride; when validation gets to such a
\* record the error is "Mesh vertexDataSize mismatch" (as for count 4, stride 32,
\* declared 100); every accepted container has vertexDataSize = vertexCount *
\* vertexStride with non-zero factors in every mesh record.
C12_VertexDataSizeMismatchFails ==
    /\ Parsed =>
          LET n == Declared(file.header.meshCount, file.meshes)
          IN  /\ (\E i \in 1..n : VertexSizeMismatch(file.meshes[i])) => ~parse.ok
              /\ \A i \in 1..n :
                    (/\ parse.stage = "records"
                     /\ VertexSizeMismatch(file.meshes[i])
                     /\ \A j \in 1..(i - 1) :
                            SlicesFitBlob(file.meshes[j]) /\ VertexSizeConsistent(file.meshes[j]))
                    => parse.err = "Mesh vertexDataSize mismatch"
              /\ parse.ok => \A i \in 1..n : VertexSizeConsistent(file.meshes[i])
    /\ ~MismatchParse.ok
    /\ MismatchParse.err = "Mesh vertexDataSize mismatch"

\* C12 witness: a parse failed with the mismatch error on a mesh of 4 vertices of
\* stride 32 whose declared vertexDataSize, 32, fits the blob
C12_Witness ==
    /\ Parsed /\ ~parse.ok /\ parse.err = "Mesh vertexDataSize mismatch"
    /\ file.header.meshCount = 1
    /\ file.meshes[1].vertexCount = 4 /\ file.meshes[1].vertexStride = 32
    /\ VertexSizeMismatch(file.meshes[1])

\* the texture indices of material record mat that name a texture
UsedTextureIndices(mat) ==
    {mat[MaterialSlots[s]] : s \in 1..5} \ {x \in {mat[MaterialSlots[s]] : s \in 1..5} : x < 0}

\* the messages of the mesh, texture and primitive loops, which run before the
\* material loop
ErrorsBeforeMaterials ==
    {"Mesh vertex data slice out of blob bounds", "Mesh index data slice out of blob bounds",
     "Mesh has invalid vertexCount/vertexStride", "Mesh vertexDataSize mismatch",
     "Texture image data slice out of blob bounds",
     "Primitive references invalid meshIndex", "Primitive references invalid materialIndex"}

\* C13: LoadSModelFile fails on every container with a material one of whose five
\* texture indices is non-negative and >= textureCount, with the invalid texture
\* index error when validation gets to the material loop; negative indices are
\* absent; in every accepted container every index grabTex looks up lies inside
\* textureHandles, which has textureCount elements.
C13_TextureIndexOutOfRangeFails ==
    Parsed =>
        LET n == Declared(file.header.materialCount, file.materials)
            bad == {i \in 1..n : \E x \in UsedTextureIndices(file.materials[i]) :
                                     x >= file.header.textureCount}
        IN  /\ bad # {} => ~parse.ok
            /\ (bad # {} /\ parse.stage = "records" /\ parse.err \notin ErrorsBeforeMaterials)
                    => parse.err = "Material references invalid texture index"
            /\ parse.ok =>
                    \A i \in 1..n : \A s \in 1..5 :
                        LET idx == file.materials[i][MaterialSlots[s]]
                        IN  IF idx < 0
                            THEN grabTex(<<>>, idx) = InvalidHandle
                            ELSE idx + 1 \in 1..file.header.textureCount

\* C13 witness: a parse failed with the invalid texture index error on a material
\* whose base color index is 7 while the container has one texture
C13_Witness ==
    /\ Parsed /\ ~parse.ok /\ parse.err = "Material references invalid texture index"
    /\ file.header.materialCount = 1 /\ file.header.textureCount = 1
    /\ file.materials[1].baseColorTexture = 7

\* a container whose material has a negative base color index was accepted
C13_WitnessAbsent ==
    /\ Parsed /\ parse.ok
    /\ file.header.materialCount = 1 /\ file.materials[1].baseColorTexture < 0

\* sampler s has two consecutive times of its range, both inside the times table,
\* of which the later is smaller
TimesDecrease(s) ==
    \E i \in 1..(s.timeCount - 1) :
        /\ s.firstTime + i < Declared(file.header.animTimesCount, file.animTimes)
        /\ At(file.animTimes, s.firstTime + i) < At(file.animTimes, s.firstTime + i - 1)

\* one sampler over the three times 0.0, 0.5, 0.2 (in tenths)
DecreasingTimesExample ==
    Cook(Merge(OneOfEach,
               [WithNodesAndAnim EXCEPT
                    !.animSamplers = << SModelAnimationSamplerRecord(0, 3, 0, 9, 1, 0) >>,
                    !.animTimes = << 0, 5, 2 >>,
                    !.animValues = << 0, 0, 0, 1, 1, 1, 2, 2, 2 >> ]))

\* the same sampler over 0.0, 0.5, 0.5
EqualTimesExample == [DecreasingTimesExample EXCEPT !.animTimes = << 0, 5, 5 >>]

DecreasingTimesParse == LoadSModelFile(DecreasingTimesExample)
EqualTimesParse == LoadSModelFile(EqualTimesExample)

----------------------------------------------------------------------------
\* Reference counts, registries and handles

\* C15: in every reachable state and for every resolving handle h of every kind,
\* release(h) changes nothing but the entry's reference count, which goes down by 1
\* when it is greater than 0 and stays 0 otherwise; the count is never below 0, the
\* entry stays in its registry and get(h) still returns the asset.
C15_ReleaseDecrementsAboveZero ==
    \A kind \in Kinds : \A h \in AnyHandles :
        LET reg == Manager[Registry[kind]]
            M == release(Manager, kind, h)
        IN  Resolves(reg, h) =>
                /\ reg[h.id].refCount >= 0
                /\ M = [Manager EXCEPT ![Registry[kind]][h.id].refCount =
                                          IF @ > 0 THEN @ - 1 ELSE 0]
                /\ M[Registry[kind]][h.id].refCount >= 0
                /\ DOMAIN M[Registry[kind]] = DOMAIN reg
                /\ get(M, kind, h)

\* C15 witness: release has just been called on a handle whose entry is at count 0,
\* and the handle still resolves
C15_Witness ==
    /\ last.op = "release"
    /\ get(Manager, last.kind, last.h)
    /\ Manager[Registry[last.kind]][last.h.id].refCount = 0

\* handle h resolves in registry reg and holds no reference beyond the uses of h in deps
HeldOnlyBy(reg, deps, h) ==
    Resolves(reg, h) /\ reg[h.id].refCount <= Occurrences(deps, h)

\* C16: when garbageCollect returns, no registry holds an entry with reference
\* count 0 and a second garbageCollect changes nothing; the sweeps run in the order
\* models, materials, meshes, textures, so that a mesh or material referenced only
\* by a removed model, and a texture referenced only by a removed material, is
\* removed by the same pass.
C16_CollectLeavesNoDeadEntry ==
    LET M == garbageCollect(Manager)
    IN  /\ \A k \in Kinds : Dead(M[Registry[k]]) = {}
        /\ garbageCollect(M) = M
        /\ Dead(m_models) \cap DOMAIN M.models = {}
        /\ \A id \in Dead(m_models) :
              LET e == m_models[id]
              IN  /\ \A i \in 1..Len(e.meshDeps) :
                        HeldOnlyBy(m_meshes, e.meshDeps, e.meshDeps[i])
                            => e.meshDeps[i].id \notin DOMAIN M.meshes
                  /\ \A i \in 1..Len(e.materialDeps) :
                        HeldOnlyBy(m_materials, e.materialDeps, e.materialDeps[i])
                            => e.materialDeps[i].id \notin DOMAIN M.materials
        /\ \A id \in (DOMAIN m_materials) \ (DOMAIN M.materials) :
              LET e == m_materials[id]
              IN  \A i \in 1..Len(e.textureDeps) :
                        HeldOnlyBy(m_textures, e.textureDeps, e.textureDeps[i])
                            => e.textureDeps[i].id \notin DOMAIN M.textures
        /\ last.op = "garbageCollect" => M = Manager

\* C16 witness: the garbageCollect that just ran removed a material whose count had
\* been released to 0 and, in the same pass, the texture only that material
\* referenced, and kept the model and the mesh
C16_Witness ==
    /\ last.op = "garbageCollect"
    /\ DOMAIN m_models # {} /\ DOMAIN m_meshes # {}
    /\ Cardinality(DOMAIN m_materials) < m_nextMaterialID - 1
    /\ Cardinality(DOMAIN m_textures) < m_nextTextureID - 1
    /\ \A k \in Kinds : Dead(Manager[Registry[k]]) = {}

\* every entry of every registry is still registered after the step
EntriesKept ==
    /\ DOMAIN m_meshes \subseteq DOMAIN m_meshes'
    /\ DOMAIN m_textures \subseteq DOMAIN m_textures'
    /\ DOMAIN m_materials \subseteq DOMAIN m_materials'
    /\ DOMAIN m_models \subseteq DOMAIN m_models'

\* C17: every step other than a garbageCollect call (loadMesh, loadModel, addRef,
\* release, and parsing a file) keeps every entry of every registry registered:
\* only garbageCollect erases, and none of the other operations runs it.
C17_OnlyCollectRemovesEntries ==
    [][last'.op # "garbageCollect" => EntriesKept]_vars

\* C17 witness: a loadModel or loadMesh has just returned and an entry with count 0
\* that was registered before the call is still registered
C17_Witness ==
    /\ last.op \in {"loadModel", "loadMesh"}
    /\ \E k \in Kinds : Dead(Manager[Registry[k]]) \ last.created[k] # {}

\* the next identifier of each registry
NextID ==
    [k \in Kinds |-> IF k = "mesh" THEN m_nextMeshID
                     ELSE IF k = "texture" THEN m_nextTextureID
                     ELSE IF k = "material" THEN m_nextMaterialID
                     ELSE m_nextModelID]

\* every registered identifier was allocated: it is below the registry's next one
AllocatedBelowNext ==
    \A k \in Kinds : \A id \in DOMAIN Manager[Registry[k]] : 1 <= id /\ id < NextID[k]

\* a step never lowers a next identifier, and every entry it registers gets an
\* identifier that was not allocated before the step
AllocatesFresh ==
    /\ m_nextMeshID' >= m_nextMeshID /\ m_nextTextureID' >= m_nextTextureID
    /\ m_nextMaterialID' >= m_nextMaterialID /\ m_nextModelID' >= m_nextModelID
    /\ \A id \in (DOMAIN m_meshes') \ (DOMAIN m_meshes) :
            m_nextMeshID <= id /\ id < m_nextMeshID'
    /\ \A id \in (DOMAIN m_textures') \ (DOMAIN m_textures) :
            m_nextTextureID <= id /\ id < m_nextTextureID'
    /\ \A id \in (DOMAIN m_materials') \ (DOMAIN m_materials) :
            m_nextMaterialID <= id /\ id < m_nextMaterialID'
    /\ \A id \in (DOMAIN m_models') \ (DOMAIN m_models) :
            m_nextModelID <= id /\ id < m_nextModelID'

\* a loadModel of a path that is not cached, in the current state, returns either
\* no handle or one whose identifier is above every model identifier allocated so
\* far, and a loadMesh does the same for meshes
LoadsReturnFreshIds ==
    /\ \A path \in ModelPaths \ DOMAIN m_modelPathCache :
          \A r \in LoadModelOutcomes(path) :
              isValid(r.ret) =>
                  /\ r.ret.id >= m_nextModelID
                  /\ \A id \in DOMAIN m_models : r.ret.id > id
    /\ \A path \in MeshPaths \ DOMAIN m_meshPathCache :
          LET r == loadMesh(Manager, path, TRUE, "ok")
          IN  r.ret.id >= m_nextMeshID

\* C18: identifiers are allocated increasingly and never reused: registered
\* identifiers are below the registry's next identifier, which never goes down; a
\* step registers entries only under identifiers not allocated before, so a
\* collected handle never resolves again; loading a path again after its model was
\* collected returns a handle with a greater identifier.
C18_IdentifiersNeverReused ==
    /\ [](AllocatedBelowNext /\ LoadsReturnFreshIds)
    /\ [][AllocatesFresh]_vars

\* C18 witness: a texture was collected and the loadModel that just returned
\* registered a new texture under the next identifier; the collected handle does
\* not resolve
C18_Witness ==
    /\ last.op = "loadModel"
    /\ last.created["texture"] = {2}
    /\ ~get(Manager, "texture", Handle(1, 1))
    /\ m_nextTextureID = 3

\* a model was collected: the registry is empty and identifier 1 is spent
C18_WitnessCollectedModel ==
    /\ last.op = "garbageCollect"
    /\ DOMAIN m_models = {} /\ m_nextModelID = 2

\* the handles the manager stores: path cache values and dependency lists
StoredHandles ==
    {m_meshPathCache[p] : p \in DOMAIN m_meshPathCache}
    \cup {m_modelPathCache[p] : p \in DOMAIN m_modelPathCache}
    \cup UNION {{m_models[id].meshDeps[i] : i \in 1..Len(m_models[id].meshDeps)}
                    \cup {m_models[id].materialDeps[i] :
                             i \in 1..Len(m_models[id].materialDeps)} :
                 id \in DOMAIN m_models}
    \cup UNION {{m_materials[id].textureDeps[i] : i \in 1..Len(m_materials[id].textureDeps)} :
                 id \in DOMAIN m_materials}

\* get answers by identifier and generation, and every entry and every handle
\* handed out or stored carries generation 1
GetByIdAndGeneration ==
    /\ \A kind \in Kinds : \A h \in AnyHandles :
          get(Manager, kind, h) <=>
              \E id \in DOMAIN Manager[Registry[kind]] :
                  id = h.id /\ Manager[Registry[kind]][id].generation = h.generation
    /\ \A kind \in Kinds : \A id \in DOMAIN Manager[Registry[kind]] :
          Manager[Registry[kind]][id].generation = 1
    /\ (last.op \in {"loadModel", "loadMesh"} /\ isValid(last.ret)) => last.ret.generation = 1
    /\ \A h \in StoredHandles : h.generation = 1

\* a step leaves the generation of every entry it keeps as it was
GenerationsKept ==
    /\ \A id \in (DOMAIN m_meshes) \cap (DOMAIN m_meshes') :
            m_meshes'[id].generation = m_meshes[id].generation
    /\ \A id \in (DOMAIN m_textures) \cap (DOMAIN m_textures') :
            m_textures'[id].generation = m_textures[id].generation
    /\ \A id \in (DOMAIN m_materials) \cap (DOMAIN m_materials') :
            m_materials'[id].generation = m_materials[id].generation
    /\ \A id \in (DOMAIN m_models) \cap (DOMAIN m_models') :
            m_models'[id].generation = m_models[id].generation

\* C19: for each kind, get(h) returns the asset exactly when the registry has an
\* entry with identifier h.id whose generation equals h.generation; every entry
\* and every handle returned by a load or stored by the manager carries generation
\* 1, and no step changes the generation of an entry.
C19_GetResolvesByIdAndGeneration ==
    /\ []GetByIdAndGeneration
    /\ [][GenerationsKept]_vars

\* C19 witness: the loadModel that just returned gave a handle of generation 1 that
\* get resolves, while get on the same identifier with generation 2 is absent
C19_Witness ==
    /\ last.op = "loadModel" /\ isValid(last.ret)
    /\ last.ret.generation = 1
    /\ get(Manager, "model", last.ret)
    /\ ~get(Manager, "model", Handle(last.ret.id, 2))
    /\ ~get(Manager, "model", Handle(last.ret.id + 1, 1))

----------------------------------------------------------------------------
\* A texture failing part-way through loadModel

\* loadModel(path) in the current state when texture record k (from 1) fails with o
\* and the device does everything else
LoadWithTextureFailure(path, k, o) ==
    loadModel(Manager, path, Disk[path], LoadSModelFileAt[path],
              [AllOk(Disk[path]) EXCEPT !.tex[k] = o])

\* C20: when decode or upload of the k-th texture fails during a loadModel that
\* got past the cache and the parse, the call returns no handle, registers exactly
\* the k-1 textures before it, each with reference count 0, registers no material,
\* mesh or model and caches no path, and a garbageCollect that follows removes all
\* k-1 textures.
C20_TextureFailureLeavesCollectibleTextures ==
    /\ \A path \in ModelPaths \ DOMAIN m_modelPathCache :
          LoadSModelFileAt[path].ok =>
              \A k \in 1..Len(Disk[path].textures) : \A o \in TexOutcomes \ {"ok"} :
                  LET r == LoadWithTextureFailure(path, k, o)
                      c == Created(Manager, r.M)
                  IN  /\ ~isValid(r.ret)
                      /\ c["texture"] = m_nextTextureID..(m_nextTextureID + k - 2)
                      /\ Cardinality(c["texture"]) = k - 1
                      /\ \A id \in c["texture"] : r.M.textures[id].refCount = 0
                      /\ c["material"] = {} /\ c["mesh"] = {} /\ c["model"] = {}
                      /\ r.M.modelPathCache = m_modelPathCache
                      /\ c["texture"] \cap DOMAIN garbageCollect(r.M).textures = {}
    /\ (last.op = "loadModel" /\ "texture" \in last.log.failed) =>
          /\ ~isValid(last.ret)
          /\ last.created["material"] = {} /\ last.created["mesh"] = {}
          /\ last.created["model"] = {}
          /\ \A id \in last.created["texture"] :
                id \in DOMAIN m_textures /\ m_textures[id].refCount = 0
          /\ last.created["texture"] \cap DOMAIN garbageCollect(Manager).textures = {}

\* C20 witness: the only entry ever registered was the first texture of a
\* two-texture container whose second texture failed, and the garbageCollect that
\* just ran removed it
C20_Witness ==
    /\ last.op = "garbageCollect"
    /\ m_nextTextureID = 2 /\ DOMAIN m_textures = {}
    /\ m_nextMaterialID = 1 /\ m_nextMeshID = 1 /\ m_nextModelID = 1

\* the second texture of a two-texture container has just failed: one texture is
\* registered at count 0 and nothing else is
C20_WitnessFailed ==
    /\ last.op = "loadModel" /\ last.path = PathB /\ last.log.failed = {"texture"}
    /\ last.created["texture"] = DOMAIN m_textures /\ DOMAIN m_textures # {}
    /\ DOMAIN m_materials = {} /\ DOMAIN m_meshes = {} /\ DOMAIN m_models = {}
    /\ \A id \in DOMAIN m_textures : m_textures[id].refCount = 0

----------------------------------------------------------------------------
\* String lookups

\* the table of strView has a terminator at or after position off
Terminated(off) == \E p \in off..(Len(strView.bytes) - 1) : strView.bytes[p + 1] = 0

\* the characters of the table from position off up to the first terminator
RECURSIVE StringAt(_)
StringAt(off) ==
    IF strView.bytes[off + 1] = 0 THEN <<>>
    ELSE <<strView.bytes[off + 1]>> \o StringAt(off + 1)

\* C21: getStringOrEmpty(off) returns the empty string when the view has no header
\* or no string table, when off is 0, when off >= stringTableSize, or when no
\* terminator occurs from off to the end of the table; otherwise it returns the
\* string that starts at off; it reads only bytes of the string table.
C21_StringLookupIsBounded ==
    strRead.off # NullPtr =>
        /\ strRead.read \subseteq 0..(Len(strView.bytes) - 1)
        /\ IF \/ ~strView.header \/ ~strView.stringTable
               \/ strRead.off = 0 \/ strRead.off >= Len(strView.bytes)
               \/ ~Terminated(strRead.off)
           THEN strRead.str = <<>>
           ELSE strRead.str = StringAt(strRead.off)

\* C21 witness: a lookup returned a string of two characters from inside the table
C21_Witness ==
    /\ strRead.off >= 1 /\ Len(strRead.str) = 2
    /\ strRead.read # {}

\* a lookup at an offset with no terminator after it returned the empty string
C21_WitnessUnterminated ==
    /\ strRead.off >= 1 /\ strRead.off < Len(strView.bytes)
    /\ strView.header /\ strView.stringTable
    /\ ~Terminated(strRead.off) /\ strRead.str = <<>>

----------------------------------------------------------------------------
\* References between the records of an accepted container

\* C22: in every accepted container every primitive record has meshIndex <
\* meshCount and materialIndex < materialCount, so the elements loadModel reads
\* from meshHandles (meshCount elements) and materialHandles (materialCount
\* elements) for each primitive exist.
C22_PrimitiveIndicesInRange ==
    (Parsed /\ parse.ok) =>
        \A i \in 1..Declared(file.header.primitiveCount, file.primitives) :
            LET p == file.primitives[i]
            IN  /\ 0 <= p.meshIndex /\ p.meshIndex < file.header.meshCount
                /\ 0 <= p.materialIndex /\ p.materialIndex < file.header.materialCount
                /\ p.meshIndex + 1 \in 1..file.header.meshCount
                /\ p.materialIndex + 1 \in 1..file.header.materialCount

\* C22 witness: a container with a primitive was accepted after its records or
\* header had been edited
C22_Witness ==
    /\ Parsed /\ parse.ok /\ edits >= 1
    /\ file.header.primitiveCount >= 1 /\ Len(file.primitives) >= 1

\* a parse failed on a primitive whose material index is out of range
C22_WitnessRejected ==
    /\ Parsed /\ ~parse.ok /\ parse.err = "Primitive references invalid materialIndex"
    /\ file.primitives[1].materialIndex >= file.header.materialCount

\* the node indices listed in the child range of node record nr, as far as the range
\* lies inside the child index table
ChildrenOf(nr) ==
    {At(file.nodeChildIndices, nr.firstChildIndex + k) :
        k \in {j \in 0..(nr.childCount - 1) :
                  nr.firstChildIndex + j <
                      Declared(file.header.nodeChildIndicesCount, file.nodeChildIndices)}}

\* C23: in every accepted container a node c is listed in node n's child range if
\* and only if c's parentIndex is n, and every parentIndex is the root sentinel
\* (UINT32_MAX) or < nodeCount.
C23_ParentChildConsistent ==
    (Parsed /\ parse.ok) =>
        LET count == Declared(file.header.nodeCount, file.nodes)
        IN  \A n \in 0..(count - 1) :
                /\ At(file.nodes, n).parentIndex = U32Max
                       \/ At(file.nodes, n).parentIndex < file.header.nodeCount
                /\ \A c \in 0..(count - 1) :
                        (c \in ChildrenOf(At(file.nodes, n)))
                            <=> (At(file.nodes, c).parentIndex = n)

\* the half of C23 the validation enforces: a listed child names its lister as parent
C23_ListedChildNamesParent ==
    (Parsed /\ parse.ok) =>
        LET count == Declared(file.header.nodeCount, file.nodes)
        IN  \A n \in 0..(count - 1) :
                /\ At(file.nodes, n).parentIndex = U32Max
                       \/ At(file.nodes, n).parentIndex < file.header.nodeCount
                /\ \A c \in 0..(count - 1) :
                        (c \in ChildrenOf(At(file.nodes, n)))
                            => (At(file.nodes, c).parentIndex = n)

\* the range first..first+count of a record, when it is not empty, ends inside a
\* table of n entries, the sum being the mathematical one
RangeInside(first, count, n) == count > 0 => first + count <= n

\* C24: in every accepted container each node's child range lies inside the
\* node-child-index table and each node's primitive range inside the
\* node-primitive-index table, the sums first + count being mathematical sums (a
\* sum that wraps at 32 bits is rejected), so that every index validation reads
\* comes from inside its table.
C24_NodeRangesInsideTables ==
    (Parsed /\ parse.ok) =>
        \A n \in 1..Declared(file.header.nodeCount, file.nodes) :
            LET nr == file.nodes[n]
            IN  /\ RangeInside(nr.firstChildIndex, nr.childCount,
                               file.header.nodeChildIndicesCount)
                /\ RangeInside(nr.firstPrimitiveIndex, nr.primitiveCount,
                               file.header.nodePrimitiveIndexCount)

\* C25: in every accepted container each clip's channel range lies inside the
\* channel table and each sampler's time and value ranges inside the time and
\* value tables, the sums first + count being mathematical sums (a sum that wraps
\* at 32 bits is rejected), so the times compared by the non-decreasing check come
\* from inside the time table.
C25_AnimationRangesInsideTables ==
    (Parsed /\ parse.ok) =>
        /\ \A i \in 1..Declared(file.header.animClipsCount, file.animClips) :
              file.animClips[i].firstChannel + file.animClips[i].channelCount
                  <= file.header.animChannelsCount
        /\ \A i \in 1..Declared(file.header.animSamplersCount, file.animSamplers) :
              LET sm == file.animSamplers[i]
              IN  /\ sm.firstTime + sm.timeCount <= file.header.animTimesCount
                  /\ sm.firstValue + sm.valueCount <= file.header.animValuesCount

\* a Quat sampler over two times and eight values, and the same sampler declared
\* with the six values of a Vec3 sampler
QuatExample ==
    Cook(Merge(OneOfEach,
               [WithNodesAndAnim EXCEPT
                    !.animSamplers = << SModelAnimationSamplerRecord(0, 2, 0, 8, 1, 1) >>,
                    !.animValues = << 0, 0, 0, 1, 1, 1, 1, 1 >> ]))
QuatParse == LoadSModelFile(QuatExample)
QuatShortParse == LoadSModelFile([QuatExample EXCEPT !.animSamplers[1].valueCount = 6])

\* C26: in every accepted container every animation channel has targetNode <
\* nodeCount, samplerIndex < samplerCount and path in {0, 1, 2}; every sampler has
\* timeCount >= 1, interpolation in {0, 1, 2}, valueType in {0, 1}, and valueCount
\* equal to timeCount * 3 for Vec3 (0) and timeCount * 4 for Quat (1).
C26_ChannelsAndSamplersWellFormed ==
    /\ (Parsed /\ parse.ok) =>
        /\ \A i \in 1..Declared(file.header.animChannelsCount, file.animChannels) :
              LET ch == file.animChannels[i]
              IN  /\ ch.targetNode < file.header.nodeCount
                  /\ ch.samplerIndex < file.header.animSamplersCount
                  /\ ch.path \in {0, 1, 2}
        /\ \A i \in 1..Declared(file.header.animSamplersCount, file.animSamplers) :
              LET sm == file.animSamplers[i]
              IN  /\ sm.timeCount >= 1
                  /\ sm.interpolation \in {0, 1, 2}
                  /\ sm.valueType \in {0, 1}
                  /\ sm.valueType = 0 => sm.valueCount = sm.timeCount * 3
                  /\ sm.valueType = 1 => sm.valueCount = sm.timeCount * 4
    /\ QuatParse.ok
    /\ ~QuatShortParse.ok
    /\ QuatShortParse.err =
            "Animation sampler valueCount does not match timeCount * valueWidth"

\* C26 witness: an edited container with one channel and one Vec3 sampler of two
\* times and six values was accepted
C26_Witness ==
    /\ Parsed /\ parse.ok /\ edits >= 1
    /\ file.header.animSamplersCount = 1 /\ file.header.animChannelsCount = 1
    /\ file.animSamplers[1].valueType = 0
    /\ file.animSamplers[1].timeCount = 2 /\ file.animSamplers[1].valueCount = 6

\* a parse failed on a sampler whose valueCount is not timeCount times the width
C26_WitnessRejected ==
    /\ Parsed /\ ~parse.ok
    /\ parse.err = "Animation sampler valueCount does not match timeCount * valueWidth"

----------------------------------------------------------------------------
\* C27

\* what a call loadMesh(path) would do from the current state
LoadMeshOutcomes ==
    {[path |-> path, readOk |-> readOk, gpu |-> gpu,
      r |-> loadMesh(Manager, path, readOk, gpu)] :
        path \in MeshPaths, readOk \in BOOLEAN, gpu \in MeshOutcomes}

\* everything of the manager that is not the mesh registry, the mesh path cache
\* or the mesh identifier counter
BesideMeshes(M) ==
    <<M.textures, M.materials, M.models, M.nextTextureID, M.nextMaterialID,
      M.nextModelID, M.modelPathCache>>

\* what loadMesh(path) does from the current state, for every path, answer of the
\* file reader and answer of the device
LoadMeshContract ==
    \A o \in LoadMeshOutcomes :
        LET M == Manager
            N == o.r.M
        IN  /\ BesideMeshes(N) = BesideMeshes(M)
            /\ IF o.path \in DOMAIN M.meshPathCache
               THEN LET h == M.meshPathCache[o.path]
                    IN  /\ o.r.ret = h
                        /\ h.id \in DOMAIN M.meshes
                        /\ DOMAIN N.meshes = DOMAIN M.meshes
                        /\ N.meshes = [M.meshes EXCEPT ![h.id].refCount = @ + 1]
                        /\ N.meshPathCache = M.meshPathCache
                        /\ N.nextMeshID = M.nextMeshID
               ELSE IF o.readOk /\ o.gpu = "ok"
               THEN /\ isValid(o.r.ret)
                    /\ o.r.ret.id \notin DOMAIN M.meshes
                    /\ DOMAIN N.meshes = (DOMAIN M.meshes) \cup {o.r.ret.id}
                    /\ \A id \in DOMAIN M.meshes : N.meshes[id] = M.meshes[id]
                    /\ N.meshes[o.r.ret.id].refCount = 1
                    /\ N.meshes[o.r.ret.id].generation = o.r.ret.generation
                    /\ DOMAIN N.meshPathCache = (DOMAIN M.meshPathCache) \cup {o.path}
                    /\ N.meshPathCache[o.path] = o.r.ret
                    /\ \A q \in DOMAIN M.meshPathCache : N.meshPathCache[q] = M.meshPathCache[q]
               ELSE /\ o.r.ret = InvalidHandle
                    /\ N.meshes = M.meshes
                    /\ N.meshPathCache = M.meshPathCache
                    /\ N.nextMeshID = M.nextMeshID

\* a loadMesh step creates no entry on a cache hit or a failure, and one mesh entry,
\* the one it returns, on a successful miss
LoadMeshStepCreates ==
    last'.op = "loadMesh" =>
        /\ \A k \in Kinds \ {"mesh"} : last'.created[k] = {}
        /\ last'.created["mesh"] =
               IF last'.path \notin DOMAIN m_meshPathCache /\ isValid(last'.ret)
               THEN {last'.ret.id} ELSE {}
        /\ DOMAIN m_meshes' = (DOMAIN m_meshes) \cup last'.created["mesh"]

\* C27: loadMesh(path) on a cached path adds one reference to the cached entry and
\* returns the cached handle without creating an entry; a miss whose file read and
\* upload succeed registers exactly one mesh entry with reference count 1 and caches
\* its handle under path; a miss whose file read or upload fails returns the invalid
\* handle and leaves the mesh registry, the mesh path cache and the mesh identifier
\* counter unchanged
C27_LoadMeshHitMissFailure ==
    /\ [](LoadMeshContract)
    /\ [][LoadMeshStepCreates]_vars

\* C27 witness: a loadMesh of a cached path returned the cached handle, created
\* nothing and left the entry with two references
C27_Witness ==
    /\ last.op = "loadMesh" /\ isValid(last.ret)
    /\ last.created["mesh"] = {}
    /\ m_meshPathCache[last.path] = last.ret
    /\ m_meshes[last.ret.id].refCount = 2

\* a loadMesh miss registered one mesh with one reference after an earlier call
C27_WitnessMiss ==
    /\ last.op = "loadMesh" /\ isValid(last.ret) /\ calls >= 2
    /\ last.created["mesh"] = {last.ret.id}
    /\ m_meshes[last.ret.id].refCount = 1
    /\ m_meshPathCache[last.path] = last.ret

\* a loadMesh miss failed in the upload while another mesh was registered and cached
C27_WitnessFailure ==
    /\ last.op = "loadMesh" /\ ~isValid(last.ret)
    /\ "mesh" \in last.log.failed /\ last.log.poolsCreated = 1
    /\ m_meshes # <<>> /\ m_meshPathCache # <<>>

----------------------------------------------------------------------------
\* C28

Range(seq) == {seq[i] : i \in 1..Len(seq)}

\* the transaction's pending list grew by exactly the staging buffers in new
PendingGrewBy(new) ==
    /\ Len(ctx'.pendingStaging) = Len(ctx.pendingStaging) + Cardinality(new)
    /\ SubSeq(ctx'.pendingStaging, 1, Len(ctx.pendingStaging)) = ctx.pendingStaging
    /\ Range(ctx'.pendingStaging) = Range(ctx.pendingStaging) \cup new

\* an upload step: the staging buffers it created are the ones it appended to the
\* pending list, and it released none
UploadKeepsStaging ==
    upl'.op = "upload" =>
        /\ dev.staging \subseteq dev'.staging
        /\ PendingGrewBy(dev'.staging \ dev.staging)
        /\ upl'.staging # 0 <=> dev'.staging # dev.staging

\* C28: every staging buffer a texture upload creates is appended to the pending
\* list of the open transaction at once, also when the upload fails later, and no
\* upload releases one: the staging buffers that exist are at all times exactly the
\* pending ones of the transaction, until its submit-and-wait releases them
C28_StagingOwnedByTransaction ==
    /\ [](dev.staging = Range(ctx.pendingStaging))
    /\ [](dev.staging # {} => ctx.begun)
    /\ [][UploadKeepsStaging]_vars

\* C28 witness: an upload failed after creating its staging buffer, in a transaction
\* that already held the staging buffer of an earlier upload; both are pending
C28_Witness ==
    /\ upl.op = "upload" /\ ~upl.ret /\ upl.gpu.fail = "image"
    /\ upl.staging = 2
    /\ ctx.begun /\ ctx.pendingStaging = <<1, 2>> /\ dev.staging = {1, 2}

\* the closing submit-and-wait released the staging buffers of the transaction
C28_WitnessReleased ==
    /\ upl.op = "end" /\ dev.nextStaging > 1 /\ dev.staging = {}

----------------------------------------------------------------------------
\* C29

\* floor(log2(max(width, height))) + 1 for an image with a side of at least 1: the
\* k with 2^(k-1) <= max(width, height) < 2^k
FullMipCount ==
    LET maxDim == IF img.width > img.height THEN img.width ELSE img.height
    IN  CHOOSE k \in 1..U32Bits : 2 ^ (k - 1) <= maxDim /\ maxDim < 2 ^ k

DirectTransitions ==
    {i \in 1..Len(upl.cmds) : upl.cmds[i] = Transition("TRANSFER_DST", "SHADER_READ_ONLY")}

UploadSucceeded == upl.op = "upload" /\ upl.ret

\* C29: after a successful uploadRGBA8_Deferred of a width x height image, the mip
\* level count is floor(log2(max(width, height))) + 1 when the mip generation was
\* recorded, and 1 when that count is 1 or the mip generation is unsupported; in
\* these two cases exactly one direct transition from transfer-destination to
\* shader-read is recorded; view and sampler are created with the final count
C29_MipLevelsAfterUpload ==
    UploadSucceeded =>
        /\ img.width >= 1 /\ img.height >= 1
        /\ IF FullMipCount > 1 /\ upl.gpu.mips
           THEN /\ tex.mipLevels = FullMipCount
                /\ upl.cmds[Len(upl.cmds)] = GenerateMipmaps(FullMipCount)
                /\ DirectTransitions = {}
           ELSE /\ tex.mipLevels = 1
                /\ Cardinality(DirectTransitions) = 1
                /\ \A i \in 1..Len(upl.cmds) : upl.cmds[i].cmd # "mipmaps"
        /\ tex.view /\ tex.viewMips = tex.mipLevels
        /\ tex.sampler /\ tex.samplerMaxLod = tex.mipLevels - 1

\* C29 witness: an upload of an image 3 wide succeeded on a device that cannot
\* generate mips: one level, one direct transition
C29_Witness ==
    /\ UploadSucceeded /\ img.width = 3 /\ img.height <= 3 /\ ~upl.gpu.mips
    /\ tex.mipLevels = 1 /\ tex.viewMips = 1 /\ Cardinality(DirectTransitions) = 1

\* an upload of an image 4 wide and 3 high succeeded with a chain of three levels
C29_WitnessFullChain ==
    /\ UploadSucceeded /\ img.width = 4 /\ img.height = 3 /\ upl.gpu.mips
    /\ tex.mipLevels = 3 /\ tex.viewMips = 3 /\ tex.samplerMaxLod = 2

\* an upload of a 1 x 1 image succeeded with one level although mips can be generated
C29_WitnessSingleLevel ==
    /\ UploadSucceeded /\ img.width = 1 /\ img.height = 1 /\ upl.gpu.mips
    /\ tex.mipLevels = 1 /\ Cardinality(DirectTransitions) = 1

\* an upload of the widest image succeeded with as many levels as the width has bits
C29_WitnessWidest ==
    /\ UploadSucceeded /\ img.width = U32Max /\ upl.gpu.mips
    /\ tex.mipLevels = U32Bits

----------------------------------------------------------------------------
\* C30

\* the bytes loadModel copies for mesh record m: vertexDataSize bytes from blob +
\* vertexDataOffset, and indexCount indices of 2 bytes (indexType 0) or 4 bytes from
\* blob + indexDataOffset (TextureAsset.cpp 680-693)
IndexBytesCopied(m) == m.indexCount * (IF m.indexType = 0 THEN 2 ELSE 4)
VertexBytesCopied(m) == m.vertexDataSize

\* C30: in an accepted container the index bytes and the vertex bytes that loadModel
\* copies for each mesh lie entirely inside the blob
C30_MeshCopiesInsideBlob ==
    (Parsed /\ parse.ok) =>
        \A i \in 1..Declared(file.header.meshCount, file.meshes) :
            LET m == file.meshes[i]
            IN  /\ m.indexDataOffset + IndexBytesCopied(m) <= file.header.blobSize
                /\ m.vertexDataOffset + VertexBytesCopied(m) <= file.header.blobSize

\* the index copy alone leaves the blob although both declared slices are inside it
C30_IndexCopyOutsideDeclaredSlice ==
    /\ Parsed /\ parse.ok /\ file.header.meshCount >= 1
    /\ SlicesFitBlob(file.meshes[1])
    /\ file.meshes[1].indexDataOffset + IndexBytesCopied(file.meshes[1]) > file.header.blobSize

----------------------------------------------------------------------------
\* C31

\* the paths whose loadModel would miss the cache and parse
MissPaths == {path \in ModelPaths \ DOMAIN m_modelPathCache : LoadSModelFileAt[path].ok}

\* loadModel(path) from the current state on a device that does all it is asked
LoadAllOk(path) ==
    loadModel(Manager, path, Disk[path], LoadSModelFileAt[path], AllOk(Disk[path]))

\* the (material, slot) pairs of container f that name texture t
TextureUses(f, t) ==
    {<<m, k>> \in (1..Len(f.materials)) \X (1..5) : f.materials[m][MaterialSlots[k]] = t}

\* the counts and dependency lists right after a successful load of a path that
\* missed the cache, from the current state
FreshModelCounts ==
    \A path \in MissPaths :
        LET f == Disk[path]
            r == LoadAllOk(path)
            N == r.M
            mesh(i) == Handle(m_nextMeshID + i, 1)
            material(i) == Handle(m_nextMaterialID + i, 1)
            texture(i) == Handle(m_nextTextureID + i, 1)
            prims == 1..Len(f.primitives)
        IN  /\ isValid(r.ret) /\ r.ret.id \notin DOMAIN m_models
            /\ N.models[r.ret.id].refCount = 1
            /\ \A i \in 0..(Len(f.meshes) - 1) :
                  N.meshes[mesh(i).id].refCount =
                      Cardinality({p \in prims : f.primitives[p].meshIndex = i})
            /\ \A i \in 0..(Len(f.materials) - 1) :
                  /\ N.materials[material(i).id].refCount =
                        Cardinality({p \in prims : f.primitives[p].materialIndex = i})
                  /\ N.materials[material(i).id].textureDeps =
                        SelectSeq([k \in 1..5 |->
                                     IF f.materials[i + 1][MaterialSlots[k]] >= 0
                                     THEN texture(f.materials[i + 1][MaterialSlots[k]])
                                     ELSE InvalidHandle], isValid)
            /\ \A i \in 0..(Len(f.textures) - 1) :
                  N.textures[texture(i).id].refCount = Cardinality(TextureUses(f, i))
            /\ N.models[r.ret.id].meshDeps =
                  [p \in prims |-> mesh(f.primitives[p].meshIndex)]
            /\ N.models[r.ret.id].materialDeps =
                  [p \in prims |-> material(f.primitives[p].materialIndex)]

\* C31: right after a successful loadModel cache miss in which every mesh upload
\* succeeded, the model's reference count is 1, each mesh's and each material's
\* count is the number of primitive records that reference it, each texture's count
\* is the number of (material, slot) pairs with a non-negative index that reference
\* it, the model's mesh and material dependency lists hold one handle per primitive
\* and each material's texture dependency list one handle per used slot
C31_FreshModelCounts == []FreshModelCounts

\* C31 witness: the two-primitive container was loaded after another call: its two
\* meshes are counted once, the shared material twice, its texture twice for its two
\* slots, and the material no primitive uses has count 0
C31_Witness ==
    /\ last.op = "loadModel" /\ last.path = PathB /\ isValid(last.ret)
    /\ last.created["model"] = {last.ret.id} /\ calls >= 2
    /\ m_models[last.ret.id].refCount = 1
    /\ Len(m_models[last.ret.id].meshDeps) = 2
    /\ Len(m_models[last.ret.id].materialDeps) = 2
    /\ \E a, b \in last.created["material"] :
          /\ m_materials[a].refCount = 2 /\ Len(m_materials[a].textureDeps) = 2
          /\ m_materials[b].refCount = 0
    /\ \E t \in last.created["texture"] : m_textures[t].refCount = 2

----------------------------------------------------------------------------
\* C32

\* the handles tried: live or collected identifiers, one never allocated, another
\* generation, and the default handle
ProbeHandles == UserHandles \cup {Handle(MaxID + 1, 1)}

\* addRef and release of every such handle of every kind, from the current state
UnresolvedHandlesChangeNothing ==
    \A kind \in Kinds : \A h \in ProbeHandles :
        LET a == addRef(Manager, kind, h)
            r == release(Manager, kind, h)
        IN  IF ~Resolves(Manager[Registry[kind]], h)
            THEN a = Manager /\ r = Manager
            ELSE \A f \in (DOMAIN Manager) \ {Registry[kind]} :
                     a[f] = Manager[f] /\ r[f] = Manager[f]

\* an addRef or release step with a handle that did not resolve changes no member
UnresolvedStepChangesNothing ==
    (last'.op \in {"addRef", "release"}
        /\ ~Resolves(Manager[Registry[last'.kind]], last'.h)) => Manager' = Manager

\* C32: addRef(h) and release(h) with a handle that does not resolve (the default
\* handle, an identifier never allocated or already collected, another generation)
\* leave every registry entry, every reference count and both path caches as they
\* were, and a handle of one kind never changes an entry of another kind with the
\* same identifier
C32_UnresolvedHandlesChangeNothing ==
    /\ []UnresolvedHandlesChangeNothing
    /\ [][UnresolvedStepChangesNothing]_vars

\* C32 witness: a release with the generation-2 handle of a live entry whose
\* identifier is also in use in another registry
C32_Witness ==
    /\ last.op = "release" /\ last.h = Handle(1, 2)
    /\ last.h.id \in DOMAIN Manager[Registry[last.kind]]
    /\ \E k \in Kinds \ {last.kind} : last.h.id \in DOMAIN Manager[Registry[k]]

\* an addRef with the handle of a collected entry
C32_WitnessCollected ==
    /\ last.op = "addRef" /\ isValid(last.h)
    /\ last.h.id \notin DOMAIN Manager[Registry[last.kind]]
    /\ last.h.id < NextID[last.kind]

----------------------------------------------------------------------------
\* C33

\* the model path cache of M and its model registry describe the same set of models
ModelCacheAgrees(M) ==
    /\ \A p \in DOMAIN M.modelPathCache :
          /\ Resolves(M.models, M.modelPathCache[p])
          /\ M.models[M.modelPathCache[p].id].path = p
    /\ \A id \in DOMAIN M.models :
          /\ M.models[id].path \in DOMAIN M.modelPathCache
          /\ M.modelPathCache[M.models[id].path].id = id
    /\ \A a, b \in DOMAIN M.models : M.models[a].path = M.models[b].path => a = b

\* the cache and the registry agree now and after a collection pass from here, the
\* pass removes exactly the cache keys of the models it removes, and a loadModel
\* that finds its path in the cache counts one reference on a live model
ModelCacheMatchesRegistry ==
    /\ ModelCacheAgrees(Manager)
    /\ LET G == garbageCollect(Manager)
       IN  /\ ModelCacheAgrees(G)
           /\ (DOMAIN Manager.modelPathCache) \ (DOMAIN G.modelPathCache)
                = {Manager.models[id].path : id \in (DOMAIN Manager.models) \ (DOMAIN G.models)}
           /\ \A path \in DOMAIN G.modelPathCache :
                 LET r == loadModel(G, path, Disk[path], LoadSModelFileAt[path], AllOk(Disk[path]))
                 IN  /\ get(G, "model", r.ret)
                     /\ r.M.models[r.ret.id].refCount = G.models[r.ret.id].refCount + 1
    /\ \A path \in DOMAIN m_modelPathCache :
          LET r == loadModel(Manager, path, Disk[path], LoadSModelFileAt[path], AllOk(Disk[path]))
          IN  /\ get(Manager, "model", r.ret)
              /\ r.M.models[r.ret.id].refCount = m_models[r.ret.id].refCount + 1

\* C33: in every reachable state a path is a key of the model path cache exactly
\* when a live model entry has that path, the cached handle resolves to that entry
\* and no two live model entries share a path; garbageCollect removes a model's
\* cache entry in the pass that removes the model, so a loadModel cache hit always
\* adds its reference to a live model.
C33_ModelCacheMatchesRegistry == []ModelCacheMatchesRegistry

\* a collection pass has removed a loaded model together with its cache entry
C33_Witness ==
    /\ last.op = "garbageCollect"
    /\ m_nextModelID > 1
    /\ DOMAIN m_models = {}
    /\ DOMAIN m_modelPathCache = {}

----------------------------------------------------------------------------
\* C34

\* the handles a live model and its materials depend on, per kind
DependenciesOf(M, id) ==
    LET mats == {M.models[id].materialDeps[i] : i \in 1..Len(M.models[id].materialDeps)}
    IN  [mesh |-> {M.models[id].meshDeps[i] : i \in 1..Len(M.models[id].meshDeps)},
         material |-> mats,
         texture |-> UNION {{M.materials[m.id].textureDeps[i] :
                                i \in 1..Len(M.materials[m.id].textureDeps)} :
                            m \in {x \in mats : get(M, "material", x)}}]

\* from the current state: release a live model to count 0, load its path again
\* without a collection pass in between, then collect; the dependencies are kept
\* when they are all registered and hold the references the model's load took
ReloadBeforeCollectKeepsModel ==
    \A id \in DOMAIN m_models :
        LET h == Handle(id, m_models[id].generation)
            Z == ReleaseToZero(Manager, h)
        IN  \A r \in {loadModel(Z, m_models[id].path, Disk[m_models[id].path],
                                 LoadSModelFileAt[m_models[id].path], gpu) :
                          gpu \in GpuScenarios(Disk[m_models[id].path])} :
                LET G == garbageCollect(r.M)
                IN  /\ Z.models[id].refCount = 0
                    /\ r.ret = h
                    /\ r.M.models[id].refCount = 1
                    /\ \A k \in Kinds \ {"model"} :
                          /\ Z[Registry[k]] = Manager[Registry[k]]
                          /\ r.M[Registry[k]] = Manager[Registry[k]]
                    /\ get(G, "model", h) /\ G.models[id] = r.M.models[id]
                    /\ (/\ OnlyLoadReferences(Manager, id)
                        /\ \A k \in Kinds \ {"model"} :
                              \A d \in DependenciesOf(Manager, id)[k] : get(Manager, k, d)) =>
                          \A k \in Kinds \ {"model"} :
                              \A d \in DependenciesOf(Manager, id)[k] :
                                  /\ get(G, k, d)
                                  /\ G[Registry[k]][d.id] = Manager[Registry[k]][d.id]

----------------------------------------------------------------------------
\* C35: the manager called by a caller who releases only what it acquired

\* the caller's holdings after it acquired or gave back one reference of h
Acquire(kind, h) == [held EXCEPT ![kind][h.id] = @ + 1]
GiveBack(kind, h) == [held EXCEPT ![kind][h.id] = @ - 1]

CallerLoadModel(path) ==
    \E gpu \in DeviceOutcomes(path) :
        LET r == loadModel(Manager, path, Disk[path], LoadSModelFileAt[path], gpu)
        IN  /\ Call
            /\ WithinBounds(r.M)
            /\ SetManager(r.M)
            /\ last' = [NoCall EXCEPT !.op = "loadModel", !.path = path, !.ret = r.ret,
                                       !.log = r.log, !.created = Created(Manager, r.M)]
            /\ held' = IF isValid(r.ret) THEN Acquire("model", r.ret) ELSE held
            /\ UNCHANGED <<parseVars, strVars, upVars>>

CallerLoadMesh(path) ==
    \E readOk \in BOOLEAN, gpu \in MeshOutcomes :
        LET r == loadMesh(Manager, path, readOk, gpu)
        IN  /\ Call
            /\ WithinBounds(r.M)
            /\ SetManager(r.M)
            /\ last' = [NoCall EXCEPT !.op = "loadMesh", !.path = path, !.ret = r.ret,
                                       !.log = r.log, !.created = Created(Manager, r.M)]
            /\ held' = IF isValid(r.ret) THEN Acquire("mesh", r.ret) ELSE held
            /\ UNCHANGED <<parseVars, strVars, upVars>>

\* addRef of a handle that resolves is an acquisition
CallerAddRef(kind, h) ==
    /\ Call
    /\ WithinBounds(addRef(Manager, kind, h))
    /\ SetManager(addRef(Manager, kind, h))
    /\ last' = [NoCall EXCEPT !.op = "addRef", !.kind = kind, !.h = h]
    /\ held' = IF get(Manager, kind, h) THEN Acquire(kind, h) ELSE held
    /\ UNCHANGED <<parseVars, strVars, upVars>>

\* the caller releases only a handle it holds
CallerRelease(kind, id) ==
    /\ held[kind][id] > 0
    /\ Call
    /\ SetManager(release(Manager, kind, Handle(id, 1)))
    /\ last' = [NoCall EXCEPT !.op = "release", !.kind = kind, !.h = Handle(id, 1)]
    /\ held' = GiveBack(kind, Handle(id, 1))
    /\ UNCHANGED <<parseVars, strVars, upVars>>

CallerCollect ==
    /\ Call
    /\ SetManager(garbageCollect(Manager))
    /\ last' = [NoCall EXCEPT !.op = "garbageCollect"]
    /\ UNCHANGED <<parseVars, strVars, upVars, heldVars>>

NextHeld ==
    \/ \E path \in ModelPaths : CallerLoadModel(path)
    \/ \E path \in MeshPaths : CallerLoadMesh(path)
    \/ \E kind \in Kinds, h \in UserHandles : CallerAddRef(kind, h)
    \/ \E kind \in Kinds, id \in 1..MaxID : CallerRelease(kind, id)
    \/ CallerCollect

SpecHeld == Init /\ [][NextHeld]_vars

\* the occurrences of h in the dependency lists named field of the entries ids of reg
RECURSIVE OccurrencesIn(_, _, _, _)
OccurrencesIn(reg, field, ids, h) ==
    IF ids = {} THEN 0
    ELSE LET x == Min(ids)
         IN  Occurrences(reg[x][field], h) + OccurrencesIn(reg, field, ids \ {x}, h)

\* the registry and the field that hold the dependency lists on entries of kind
DependentsOf ==
    [mesh |-> [reg |-> "models", field |-> "meshDeps"],
     material |-> [reg |-> "models", field |-> "materialDeps"],
     texture |-> [reg |-> "materials", field |-> "textureDeps"]]

\* how often h of kind occurs in the dependency lists of the live entries of M
LiveOccurrences(M, kind, h) ==
    OccurrencesIn(M[DependentsOf[kind].reg], DependentsOf[kind].field,
                  DOMAIN M[DependentsOf[kind].reg], h)

\* every handle in a dependency list of a live entry of M resolves to an entry
\* counted at least as often as live dependency lists name it
DependenciesCounted(M) ==
    \A kind \in DOMAIN DependentsOf :
        \A x \in DOMAIN M[DependentsOf[kind].reg] :
            LET deps == M[DependentsOf[kind].reg][x][DependentsOf[kind].field]
            IN  \A i \in 1..Len(deps) :
                    /\ get(M, kind, deps[i])
                    /\ M[Registry[kind]][deps[i].id].refCount
                          >= LiveOccurrences(M, kind, deps[i])

\* now, after a collection pass from here, and after the caller gives back any
\* reference it holds and then collects
HeldDependenciesCounted ==
    /\ DependenciesCounted(Manager)
    /\ DependenciesCounted(garbageCollect(Manager))
    /\ \A kind \in Kinds, id \in 1..MaxID :
          held[kind][id] > 0 =>
              /\ DependenciesCounted(release(Manager, kind, Handle(id, 1)))
              /\ DependenciesCounted(garbageCollect(release(Manager, kind, Handle(id, 1))))

\* C35: when the calls come one after another and the caller releases a handle at
\* most as often as it acquired it through loadMesh, loadModel or addRef, then in
\* every reachable state every handle in a live model's mesh and material
\* dependency lists and in a live material's texture dependency list resolves to a
\* live entry whose count is at least the number of its occurrences in the
\* dependency lists of live entries.
C35_HeldDependenciesCounted == []HeldDependenciesCounted

\* the caller took a reference on a mesh a live model depends on and has just
\* given it back: the mesh is counted exactly as often as the model names it
C35_Witness ==
    /\ last.op = "release" /\ last.kind = "mesh"
    /\ held["mesh"][last.h.id] = 0
    /\ get(Manager, "mesh", last.h)
    /\ LiveOccurrences(Manager, "mesh", last.h) > 0
    /\ m_meshes[last.h.id].refCount = LiveOccurrences(Manager, "mesh", last.h)

----------------------------------------------------------------------------
\* C36

\* what one collection pass from the current state does to each entry: G is the
\* manager after the pass, n the occurrences of the entry's handle in the
\* dependency lists of the entries the pass removes
CollectReleasesRemovedDependencies ==
    LET G == garbageCollect(Manager)
    IN  /\ \A kind \in Kinds : DOMAIN G[Registry[kind]] \subseteq DOMAIN Manager[Registry[kind]]
        /\ \A id \in DOMAIN G.models : G.models[id] = m_models[id]
        /\ \A id \in DOMAIN m_models : id \in DOMAIN G.models <=> m_models[id].refCount > 0
        /\ \A kind \in DOMAIN DependentsOf : \A id \in DOMAIN Manager[Registry[kind]] :
              LET e == Manager[Registry[kind]][id]
                  owners == Manager[DependentsOf[kind].reg]
                  n == OccurrencesIn(owners, DependentsOf[kind].field,
                                     (DOMAIN owners) \ (DOMAIN G[DependentsOf[kind].reg]),
                                     Handle(id, e.generation))
              IN  /\ (e.refCount > 0 /\ n = 0) =>
                        /\ id \in DOMAIN G[Registry[kind]]
                        /\ G[Registry[kind]][id] = e
                  /\ id \in DOMAIN G[Registry[kind]] =>
                        /\ e.refCount > n
                        /\ G[Registry[kind]][id] = [e EXCEPT !.refCount = e.refCount - n]
                  /\ id \notin DOMAIN G[Registry[kind]] => e.refCount <= n

\* C36: garbageCollect never raises a count and never changes a model's count; an
\* entry with a count above 0 that no entry removed in the pass depends on stays
\* with the same count and the same dependency lists; the count of any entry drops
\* by exactly the number of its occurrences in the dependency lists of the entries
\* removed in the pass, stopping at 0.
C36_CollectReleasesRemovedDependencies == []CollectReleasesRemovedDependencies

\* a collection pass has removed an unused material and left a texture that only
\* that material depended on, still counted by the reference its caller added,
\* next to a model that the pass did not touch
C36_Witness ==
    /\ last.op = "garbageCollect"
    /\ DOMAIN m_models # {} /\ \A id \in DOMAIN m_models : m_models[id].refCount = 1
    /\ \E id \in 1..(m_nextMaterialID - 1) : id \notin DOMAIN m_materials
    /\ \E t \in DOMAIN m_textures :
          /\ m_textures[t].refCount = 1
          /\ LiveOccurrences(Manager, "texture", Handle(t, 1)) = 0

----------------------------------------------------------------------------
\* C37

GpuObjects == {"image", "memory", "view", "sampler"}

\* the GPU objects a texture object holds
Owned(t) == {o \in GpuObjects : t[o]}

\* ~TextureAsset() = default: the destructor calls neither destroy() nor any
\* vkDestroy*, so the objects the texture held stay alive on the device, unowned
TextureAsset_destructor(t) == Owned(t)

\* one iteration of loadModel's texture loop inside the begun transaction c: a fresh
\* TextureAsset is uploaded; on failure the transaction is ended and the function
\* returns, which runs the destructor of the unregistered texture; on success the
\* texture is moved into a registry entry
loadModelTexture(c, d, pixels, width, height, gpu) ==
    LET r == uploadRGBA8_Deferred(c, NewTextureAsset, d, pixels, width, height, gpu)
    IN  IF ~r.ret
        THEN [ret |-> FALSE,
              ctx |-> EndSubmitAndWait(r.ctx, r.dev).ctx,
              dev |-> EndSubmitAndWait(r.ctx, r.dev).dev,
              registered |-> {}, created |-> Owned(r.tex),
              leftAlive |-> TextureAsset_destructor(r.tex)]
        ELSE [ret |-> TRUE, ctx |-> r.ctx, dev |-> r.dev,
              registered |-> Owned(r.tex), created |-> Owned(r.tex), leftAlive |-> {}]

\* C37: after a loadModel that fails because the image, image view or sampler
\* creation of a texture upload failed, every GPU image, memory, view and sampler
\* the upload created is owned by a texture entry of the registry or destroyed.
C37_FailedUploadLeavesNoGpuObject ==
    (ctx.begun /\ ctx.cmd) =>
        \A gpu \in GpuAnswers :
            LET r == loadModelTexture(ctx, dev, TRUE, img.width, img.height, gpu)
            IN  (~r.ret /\ gpu.fail \in {"image", "view", "sampler"}) =>
                    r.leftAlive \ r.registered = {}

\* what the failing iteration leaves behind, by the step that failed
C37_LeftAliveByFailure ==
    (ctx.begun /\ ctx.cmd /\ img.width > 0 /\ img.height > 0) =>
        \A gpu \in GpuAnswers :
            LET r == loadModelTexture(ctx, dev, TRUE, img.width, img.height, gpu)
            IN  /\ gpu.fail = "image" => r.leftAlive = {}
                /\ gpu.fail = "view" => r.leftAlive = {"image", "memory"}
                /\ gpu.fail = "sampler" => r.leftAlive = {"image", "memory", "view"}
                /\ gpu.fail \in {"image", "view", "sampler"} =>
                      ~r.ret /\ r.registered = {} /\ r.dev.staging = {}

----------------------------------------------------------------------------
\* C38: the device calls on command pools and on the transaction, in call order

Ev(ev, pool) == [ev |-> ev, pool |-> pool]

\* createMeshFromData_Internal, as the calls it makes on its transient pool number p
createMeshFromData_InternalEvents(p, gpu) ==
    IF gpu = "pool" THEN <<>>
    ELSE << Ev("vkCreateCommandPool", p), Ev("upload", p), Ev("vkDestroyCommandPool", p) >>

\* the mesh loop: one createMeshFromData_Internal per mesh record, pool i + 1 for
\* record i
RECURSIVE MeshLoopEvents(_, _)
MeshLoopEvents(gpuMesh, i) ==
    IF i >= Len(gpuMesh) THEN <<>>
    ELSE createMeshFromData_InternalEvents(i + 1, gpuMesh[i + 1])
         \o MeshLoopEvents(gpuMesh, i + 1)

\* a loadModel that destroys its pool before it ends the transaction when a texture
\* upload fails
loadModelEvents_destroyBeforeEnd(M, path, f, parsed, gpu) ==
    IF path \in DOMAIN M.modelPathCache \/ ~parsed.ok \/ ~gpu.pool THEN <<>>
    ELSE IF ~gpu.begin
    THEN << Ev("vkCreateCommandPool", 0), Ev("BeginUploadContext", 0),
            Ev("vkDestroyCommandPool", 0) >>
    ELSE IF ~UploadTextures(M, f, gpu.tex, <<>>).ok
    THEN << Ev("vkCreateCommandPool", 0), Ev("BeginUploadContext", 0),
            Ev("vkDestroyCommandPool", 0), Ev("EndSubmitAndWait", 0) >>
    ELSE << Ev("vkCreateCommandPool", 0), Ev("BeginUploadContext", 0),
            Ev("EndSubmitAndWait", 0), Ev("vkDestroyCommandPool", 0) >>
         \o (IF gpu.end THEN MeshLoopEvents(gpu.mesh, 0) ELSE <<>>)

\* loadModel, as the calls it makes on command pools and on its transaction; pool 0
\* is the pool of the texture transaction
loadModelEvents(M, path, f, parsed, gpu) ==
    IF path \in DOMAIN M.modelPathCache \/ ~parsed.ok \/ ~gpu.pool THEN <<>>
    ELSE IF ~gpu.begin
    THEN << Ev("vkCreateCommandPool", 0), Ev("BeginUploadContext", 0),
            Ev("vkDestroyCommandPool", 0) >>
    ELSE << Ev("vkCreateCommandPool", 0), Ev("BeginUploadContext", 0),
            Ev("EndSubmitAndWait", 0), Ev("vkDestroyCommandPool", 0) >>
         \o (IF UploadTextures(M, f, gpu.tex, <<>>).ok /\ gpu.end
             THEN MeshLoopEvents(gpu.mesh, 0) ELSE <<>>)

\* the positions of event e in the trace tr
Positions(tr, e) == {i \in 1..Len(tr) : tr[i] = e}

\* every pool of tr is created at most once and destroyed exactly once, later
PoolsDestroyedOnce(tr) ==
    \A i \in 1..Len(tr) :
        LET c == Positions(tr, Ev("vkCreateCommandPool", tr[i].pool))
            d == Positions(tr, Ev("vkDestroyCommandPool", tr[i].pool))
        IN  /\ Cardinality(c) = 1 /\ Cardinality(d) = 1
            /\ \A x \in c, y \in d : x < y
            /\ \A x \in c : x <= i
            /\ \A y \in d : i <= y

\* the transaction of pool 0 is ended before the pool is destroyed
EndedBeforeDestroyed(tr) ==
    \A y \in Positions(tr, Ev("vkDestroyCommandPool", 0)) :
        \E x \in Positions(tr, Ev("EndSubmitAndWait", 0)) : x < y

\* the trace tr and the counts logged by the call r it belongs to agree, and the
\* trace destroys every pool once, after EndSubmitAndWait when a texture failed
TraceDestroysPoolsOnce(tr, r) ==
    /\ PoolsDestroyedOnce(tr)
    /\ "texture" \in r.log.failed =>
          /\ EndedBeforeDestroyed(tr)
          /\ Positions(tr, Ev("vkDestroyCommandPool", 0)) # {}
    /\ r.log.poolsCreated =
          Cardinality({i \in 1..Len(tr) : tr[i].ev = "vkCreateCommandPool"})
    /\ r.log.poolsDestroyed =
          Cardinality({i \in 1..Len(tr) : tr[i].ev = "vkDestroyCommandPool"})
    /\ r.log.submits =
          Cardinality({i \in 1..Len(tr) : tr[i].ev = "EndSubmitAndWait"})
    /\ r.log.poolsCreated = r.log.poolsDestroyed

\* every loadModel and every loadMesh on a new manager, under every answer of the
\* device
NewManagerPoolsDestroyedOnce ==
    /\ \A path \in ModelPaths : \A gpu \in GpuScenarios(Disk[path]) :
          TraceDestroysPoolsOnce(
              loadModelEvents(NewManager, path, Disk[path], LoadSModelFileAt[path], gpu),
              loadModel(NewManager, path, Disk[path], LoadSModelFileAt[path], gpu))
    /\ \A path \in MeshPaths, readOk \in BOOLEAN, gpu \in MeshOutcomes :
          LET r == loadMesh(NewManager, path, readOk, gpu)
          IN  /\ PoolsDestroyedOnce(createMeshFromData_InternalEvents(1, gpu))
              /\ r.log.poolsCreated = r.log.poolsDestroyed
              /\ readOk =>
                    r.log.poolsCreated =
                        Cardinality(Positions(createMeshFromData_InternalEvents(1, gpu),
                                              Ev("vkCreateCommandPool", 1)))

\* the same on the current manager, whose registries and caches are not new, with
\* a device that answers every call, and for loadMesh under every answer
TransientPoolsDestroyedOnce ==
    /\ NewManagerPoolsDestroyedOnce
    /\ \A path \in ModelPaths :
          TraceDestroysPoolsOnce(
              loadModelEvents(Manager, path, Disk[path], LoadSModelFileAt[path],
                              AllOk(Disk[path])),
              loadModel(Manager, path, Disk[path], LoadSModelFileAt[path],
                        AllOk(Disk[path])))
    /\ \A path \in MeshPaths, readOk \in BOOLEAN, gpu \in MeshOutcomes :
          LET r == loadMesh(Manager, path, readOk, gpu)
          IN  /\ r.log.poolsCreated = r.log.poolsDestroyed
              /\ (path \notin DOMAIN m_meshPathCache /\ readOk) =>
                    r.log.poolsCreated =
                        Cardinality(Positions(createMeshFromData_InternalEvents(1, gpu),
                                              Ev("vkCreateCommandPool", 1)))

\* the pools of the call that just returned are all destroyed
ReturnedCallLeavesNoPool ==
    last'.op \in {"loadModel", "loadMesh"} => last'.log.poolsCreated = last'.log.poolsDestroyed

\* C38: every transient command pool that loadModel or createMeshFromData_Internal
\* creates is destroyed exactly once before the function returns, on every path
\* (success, begin failure, texture upload failure, submit failure, mesh upload
\* failure), and when a texture upload fails only after EndSubmitAndWait was called.
C38_TransientPoolsDestroyedOnce ==
    /\ []TransientPoolsDestroyedOnce
    /\ [][ReturnedCallLeavesNoPool]_vars

\* a loadModel of the two-mesh model has just returned after one of its mesh
\* uploads failed: the transaction pool and both mesh pools were created and
\* destroyed
C38_Witness ==
    /\ last.op = "loadModel" /\ last.path = PathB
    /\ last.log.failed = {"mesh"}
    /\ last.log.poolsCreated = 3 /\ last.log.poolsDestroyed = 3

\* a loadModel has just returned after a texture upload failed behind an uploaded
\* texture: its one pool was destroyed after the one EndSubmitAndWait
C38_WitnessTextureFailure ==
    /\ last.op = "loadModel" /\ "texture" \in last.log.failed
    /\ last.created["texture"] # {}
    /\ last.log.poolsCreated = 1 /\ last.log.poolsDestroyed = 1 /\ last.log.submits = 1

----------------------------------------------------------------------------
\* C39

\* the checks uploadRGBA8_Deferred makes before it does anything
UploadRejected(c, pixels, width, height) ==
    ~c.begun \/ ~c.cmd \/ ~pixels \/ width = 0 \/ height = 0

\* the transaction at hand, and the same without a command buffer or not begun
ContextsAtHand == {ctx, [ctx EXCEPT !.cmd = FALSE], [ctx EXCEPT !.begun = FALSE]}

\* every upload from the current state: a rejected one returns false and leaves the
\* transaction, the texture and the device as they were; an accepted one onto a
\* valid texture leaves none of the old objects, whatever step fails afterwards
RejectedUploadTouchesNothing ==
    \A c \in ContextsAtHand, pixels \in BOOLEAN, gpu \in GpuAnswers :
        LET r == uploadRGBA8_Deferred(c, tex, dev, pixels, img.width, img.height, gpu)
        IN  /\ UploadRejected(c, pixels, img.width, img.height) =>
                  /\ ~r.ret
                  /\ r.ctx = c /\ r.tex = tex /\ r.dev = dev
                  /\ r.staging = 0 /\ r.cmds = <<>>
            /\ (~UploadRejected(c, pixels, img.width, img.height) /\ tex.image) =>
                  /\ gpu.fail \in {"staging", "image"} => Owned(r.tex) = {}
                  /\ gpu.fail = "view" => Owned(r.tex) = {"image", "memory"}
                  /\ gpu.fail = "sampler" => Owned(r.tex) = {"image", "memory", "view"}
                  /\ gpu.fail = "none" => Owned(r.tex) = GpuObjects /\ r.ret

\* an upload step that was rejected changed neither the transaction nor the
\* texture nor the device's staging buffers
RejectedUploadStep ==
    (upl'.op = "upload" /\ UploadRejected(ctx, upl'.pixels, img.width, img.height)) =>
        /\ ~upl'.ret /\ upl'.staging = 0 /\ upl'.cmds = <<>>
        /\ ctx' = ctx /\ tex' = tex
        /\ dev'.staging = dev.staging /\ dev'.nextStaging = dev.nextStaging

\* C39: uploadRGBA8_Deferred returns false without creating a staging buffer or
\* any GPU object, without recording a command and without modifying or destroying
\* the texture's resources when the context has not been begun or has no command
\* buffer, or when the pixels are null or the width or height is 0; only after
\* these checks pass does an upload onto a valid texture destroy the old image,
\* view and sampler, before it creates the new ones.
C39_RejectedUploadTouchesNothing ==
    /\ []RejectedUploadTouchesNothing
    /\ [][RejectedUploadStep]_vars

\* an upload outside a transaction onto a texture that holds an image, a view and
\* a sampler has just returned false, and the texture still holds them
C39_Witness ==
    /\ upl.op = "upload" /\ ~upl.ret
    /\ ~ctx.begun
    /\ Owned(tex) = GpuObjects
    /\ upl.pixels /\ img.width > 0 /\ img.height > 0

----------------------------------------------------------------------------
\* C40

\* C40: while a mesh obtained through loadMesh(path) is live the mesh path cache
\* maps path to its handle and loadMesh(path) returns that handle; garbageCollect
\* removes a mesh path cache entry only when the mesh entry it points to is removed
\* in the same pass, also when meshes created by loadModel are collected.
C40_CollectKeepsLiveMeshCached ==
    /\ \A p \in DOMAIN m_meshPathCache :
          get(Manager, "mesh", m_meshPathCache[p]) =>
              \A readOk \in BOOLEAN, gpu \in MeshOutcomes :
                  loadMesh(Manager, p, readOk, gpu).ret = m_meshPathCache[p]
    /\ LET G == garbageCollect(Manager)
       IN  \A p \in DOMAIN m_meshPathCache :
               /\ p \notin DOMAIN G.meshPathCache => ~get(G, "mesh", m_meshPathCache[p])
               /\ p \in DOMAIN G.meshPathCache => G.meshPathCache[p] = m_meshPathCache[p]

\* what does hold: a pass removes a cache entry only when it removes a mesh entry
\* stored under that path, which need not be the entry the cache points to
C40_CollectErasesByPath ==
    LET G == garbageCollect(Manager)
    IN  \A p \in DOMAIN m_meshPathCache :
            /\ p \notin DOMAIN G.meshPathCache =>
                  \E id \in (DOMAIN m_meshes) \ (DOMAIN G.meshes) : m_meshes[id].path = p
            /\ p \in DOMAIN G.meshPathCache => G.meshPathCache[p] = m_meshPathCache[p]

\* a mesh loaded by loadMesh from the path under which a model's mesh is stored is
\* live and cached next to that model's mesh, and a collection pass from here
\* removes the model's mesh and with it the cache entry of the live mesh
C40_LiveMeshLosesCacheEntry ==
    LET G == garbageCollect(Manager)
    IN  \E p \in DOMAIN m_meshPathCache :
            /\ \E id \in DOMAIN m_models : p = m_models[id].path \o <<"#mesh", "0">>
            /\ get(G, "mesh", m_meshPathCache[p])
            /\ p \notin DOMAIN G.meshPathCache

====
